---- MODULE Spec2Model ----
(***************************************************************************)
(* The signature-verification gateway of the CDN proxy                     *)
(* (src/unnamed/part_002): the gate middleware, verifySignature,           *)
(* getKeyById with its key cache, the nonce cache with its periodic sweep, *)
(* the envelope parser, the base-string builder and the two verifiers;     *)
(* and, of the merchant frontend, the CartProvider                         *)
(* (src/merchant-frontend/src/context/CartContext.jsx) and the             *)
(* ProductsPage (src/unnamed/part_001) with its SearchFilters form.        *)
(*                                                                         *)
(* Strings are sequences of one-character strings, so that toLowerCase,    *)
(* startsWith and the keyId character class are computed, not assumed.     *)
(* A JavaScript value is a record [t, v]: t its typeof, v a sequence (the  *)
(* characters of a string, <<n>> for a number, <<>> for undefined).        *)
(***************************************************************************)
EXTENDS Integers, Sequences, FiniteSets, Bags, TLC

VARIABLES
    now,         \* Date.now(), milliseconds
    keyCache,    \* the Map keyCache: a set of [ck, key, timestamp]
    nonceCache,  \* the Map nonceCache: a set of [nonce, timestamp]
    inflight,    \* bag of requests suspended in `await axios.get`
    last,        \* the most recently completed request and what it observed
    lastFresh,   \* per nonce, when a request last found it absent and recorded it
    registry,    \* the is_active value of the records the agent registry holds
    answers,     \* bag of registry answers on their way to the proxy
    cartState,   \* CartProvider: the state of useReducer(cartReducer, ...)
    cartOps,     \* CartProvider: whether it is mounted, its pending API calls
    page,        \* ProductsPage: its useState values
    searchFilters, \* SearchFilters: its useState values
    pageCalls    \* ProductsPage: pending searches and setTimeout callbacks

registryVars == <<registry, answers>>
frontendVars == <<cartState, cartOps, page, searchFilters, pageCalls>>

vars == <<now, keyCache, nonceCache, inflight, last, lastFresh,
          registry, answers, cartState, cartOps, page, searchFilters, pageCalls>>

-----------------------------------------------------------------------------
(* Program constants *)

CACHE_TTL == 5
NONCE_TTL == 3600000
CLOCK_SKEW == 60
MAX_KEYID_LEN == 100
SIG_PREFIX_LEN == 5
LOG_LIMIT == 200
SWEEP_PERIOD == 60000

(* Bounds of the model *)

MaxInFlight == 2
StartSec == 1000
LongKeyLen == 101
LongValueLen == 201
LiveInFlight == 1

-----------------------------------------------------------------------------
(* JavaScript values *)

Undef == [t |-> "undefined", v |-> <<>>]
Str(cs) == [t |-> "string", v |-> cs]
Num(n) == [t |-> "number", v |-> <<n>>]
Bool(b) == [t |-> "boolean", v |-> <<IF b THEN 1 ELSE 0>>]

\* ToBoolean: undefined, "", 0 and false are falsy
Truthy(x) ==
    CASE x.t = "undefined" -> FALSE
      [] x.t = "string" -> x.v # <<>>
      [] x.t = "number" -> x.v[1] # 0
      [] x.t = "boolean" -> x.v[1] = 1
      [] OTHER -> TRUE

\* x !== Str(cs)
StrictEq(x, y) == x.t = y.t /\ x.v = y.v

-----------------------------------------------------------------------------
(* Characters and strings *)

UpperChars == <<"A","B","C","D","E","F","G","H","I","J","K","L","M",
                "N","O","P","Q","R","S","T","U","V","W","X","Y","Z">>
LowerChars == <<"a","b","c","d","e","f","g","h","i","j","k","l","m",
                "n","o","p","q","r","s","t","u","v","w","x","y","z">>
DigitChars == <<"0","1","2","3","4","5","6","7","8","9">>

Range(f) == {f[i] : i \in DOMAIN f}

LowerChar(c) ==
    IF \E i \in 1..26 : UpperChars[i] = c
    THEN LowerChars[CHOOSE i \in 1..26 : UpperChars[i] = c]
    ELSE c

\* String.prototype.toLowerCase
ToLowerCase(cs) == [i \in 1..Len(cs) |-> LowerChar(cs[i])]

\* String.prototype.startsWith
StartsWith(cs, prefix) ==
    /\ Len(cs) >= Len(prefix)
    /\ SubSeq(cs, 1, Len(prefix)) = prefix

\* /^[a-zA-Z0-9._-]+$/
KeyIdChars == Range(UpperChars) \cup Range(LowerChars) \cup Range(DigitChars)
                \cup {".", "_", "-"}

\* variant: no limit on the length
validateKeyId_anyLength(keyId) ==
    /\ keyId.t = "string"
    /\ Len(keyId.v) >= 1
    /\ \A i \in 1..Len(keyId.v) : keyId.v[i] \in KeyIdChars

validateKeyId(keyId) ==
    /\ keyId.t = "string"
    /\ Len(keyId.v) <= MAX_KEYID_LEN
    /\ Len(keyId.v) >= 1
    /\ \A i \in 1..Len(keyId.v) : keyId.v[i] \in KeyIdChars

\* parseInt on a token matched by \d+
DigitVal(c) == (CHOOSE i \in 1..10 : DigitChars[i] = c) - 1

RECURSIVE ParseInt(_)
ParseInt(ds) ==
    IF ds = <<>> THEN 0
    ELSE 10 * ParseInt(SubSeq(ds, 1, Len(ds) - 1)) + DigitVal(ds[Len(ds)])

\* the decimal digits of n, as a signer writes created=... and expires=...
RECURSIVE Digits(_)
Digits(n) ==
    IF n < 10 THEN <<DigitChars[n + 1]>>
    ELSE Digits(n \div 10) \o <<DigitChars[(n % 10) + 1]>>

-----------------------------------------------------------------------------
(* String literals of the program and of the sampled requests *)

S_sig2 == <<"s","i","g","2">>
S_sig1 == <<"s","i","g","1">>
S_sig2eq == <<"s","i","g","2","=">>
S_keyId == <<"k","e","y","I","d">>
S_alg == <<"a","l","g">>
S_nonce == <<"n","o","n","c","e">>
S_created == <<"c","r","e","a","t","e","d">>
S_expires == <<"e","x","p","i","r","e","s">>
S_tag == <<"t","a","g">>
S_true == <<"t","r","u","e">>
S_false == <<"f","a","l","s","e">>
S_TRUE == <<"T","R","U","E">>
S_ed25519 == <<"e","d","2","5","5","1","9">>
S_ED25519 == <<"E","D","2","5","5","1","9">>
S_rsa == <<"r","s","a","-","p","s","s","-","s","h","a","2","5","6">>
S_hmac == <<"h","m","a","c","-","s","h","a","2","5","6">>
S_authority == <<"@","a","u","t","h","o","r","i","t","y">>
S_path == <<"@","p","a","t","h">>
S_contentType == <<"c","o","n","t","e","n","t","-","t","y","p","e">>
S_host == <<"h","o","s","t">>
S_xagent == <<"x","-","a","g","e","n","t">>
S_sigparams == <<"@","s","i","g","n","a","t","u","r","e","-","p","a","r","a","m","s">>
S_appjson == <<"a","p","p","l","i","c","a","t","i","o","n","/","j","s","o","n">>
S_productPrefix == <<"/","p","r","o","d","u","c","t","/">>
S_product1 == <<"/","p","r","o","d","u","c","t","/","1">>
S_Product1 == <<"/","P","r","o","d","u","c","t","/","1">>
S_about == <<"/","a","b","o","u","t">>
S_shop == <<"s","h","o","p">>
S_k1 == <<"k","1">>
S_k2 == <<"k","2">>
S_badKey == <<"k","/","1">>
S_n1 == <<"n","1">>
S_n2 == <<"n","2">>
S_browse == <<"b","r","o","w","s","e">>
S_cartAdd == <<"/","c","a","r","t","/","a","d","d">>
S_orders == <<"/","o","r","d","e","r","s">>
S_testProxy == <<"/","t","e","s","t","-","p","r","o","x","y">>
S_apiCart == <<"/","a","p","i","/","c","a","r","t">>
S_apix == <<"/","a","p","i","x">>
S_APIcart == <<"/","A","P","I","/","c","a","r","t">>
S_api == <<"/","a","p","i">>
S_apiHost == <<"l","o","c","a","l","h","o","s","t",":","8","0","0","0">>
S_appHost == <<"l","o","c","a","l","h","o","s","t",":","3","0","0","0">>
S_null == <<"[","n","u","l","l","]">>
S_signatureInput == <<"s","i","g","n","a","t","u","r","e","-","i","n","p","u","t">>
S_signature == <<"s","i","g","n","a","t","u","r","e">>
S_commaSpace == <<","," ">>
S_undefined == <<"u","n","d","e","f","i","n","e","d">>
S_keyColon == <<"k","e","y",":">>

-----------------------------------------------------------------------------
(* The two wire headers.                                                   *)
(* signature-input: [present, label, params, attrs]; attrs is the sequence *)
(* of key=value pairs as written, each value a quoted string or digits.    *)
(* signature: [present, label, sig]; sig stands for the base64 text.       *)

NoSigInput == [present |-> FALSE, label |-> <<>>, params |-> <<>>, attrs |-> <<>>]

QAttr(key, text) == [key |-> key, quoted |-> TRUE, text |-> text]
NAttr(key, n) == [key |-> key, quoted |-> FALSE, text |-> Digits(n)]

RECURSIVE JoinWith(_, _)
JoinWith(parts, sep) ==
    IF parts = <<>> THEN <<>>
    ELSE IF Len(parts) = 1 THEN parts[1]
    ELSE parts[1] \o sep \o JoinWith(Tail(parts), sep)

Quoted(cs) == <<"\"">> \o cs \o <<"\"">>

RenderAttr(a) == a.key \o <<"=">> \o (IF a.quoted THEN Quoted(a.text) ELSE a.text)

\* the header value as the agent sent it:
\*   LABEL=("c1" "c2"); k=v; k=v
RenderSigInput(h) ==
    h.label \o <<"=", "(">>
      \o JoinWith([i \in 1..Len(h.params) |-> Quoted(h.params[i])], <<" ">>)
      \o <<")", ";", " ">>
      \o JoinWith([i \in 1..Len(h.attrs) |-> RenderAttr(h.attrs[i])], <<";", " ">>)

\* attributes[key] after the matchAll loop: the last pair of that key wins;
\* a quoted value has its quotes removed, a digit run goes through parseInt
Attribute(attrs, key) ==
    LET idx == {i \in 1..Len(attrs) : attrs[i].key = key}
    IN  IF idx = {} THEN Undef
        ELSE LET a == attrs[CHOOSE i \in idx : \A j \in idx : j <= i]
             IN  IF a.quoted THEN Str(a.text) ELSE Num(ParseInt(a.text))

NullSignatureData ==
    [ok |-> FALSE, params |-> <<>>, nonce |-> Undef, created |-> Undef,
     expires |-> Undef, keyId |-> Undef, algorithm |-> Undef, tag |-> Undef]

\* /sig2=\(([^)]+)\);\s*(.+)/ : the label sig2, a non-empty component list,
\* a non-empty attribute string
SignatureInputMatches(h) ==
    /\ h.present
    /\ h.label = S_sig2
    /\ h.params # <<>>
    /\ h.attrs # <<>>

parseRFC9421SignatureInput(h) ==
    IF ~SignatureInputMatches(h) THEN NullSignatureData
    ELSE [ok |-> TRUE,
          params |-> h.params,
          nonce |-> Attribute(h.attrs, S_nonce),
          created |-> Attribute(h.attrs, S_created),
          expires |-> Attribute(h.attrs, S_expires),
          keyId |-> Attribute(h.attrs, S_keyId),
          algorithm |-> Attribute(h.attrs, S_alg),
          tag |-> Attribute(h.attrs, S_tag)]

-----------------------------------------------------------------------------
(* Base string *)

ComponentLine(name, value) == Quoted(name) \o <<":", " ">> \o value

\* requestData[param] for a param outside the four switch cases: the object
\* has the own properties authority, path, contentType and host only
RequestDataProperty(requestData, param) ==
    CASE param = <<"a","u","t","h","o","r","i","t","y">> -> Str(requestData.authority)
      [] param = <<"p","a","t","h">> -> Str(requestData.path)
      [] param = <<"c","o","n","t","e","n","t","T","y","p","e">> -> requestData.contentType
      [] OTHER -> Undef

ComponentLines(params, requestData) ==
    LET line(param) ==
          CASE param = S_authority ->
                 <<ComponentLine(S_authority, requestData.authority)>>
            [] param = S_path ->
                 <<ComponentLine(S_path, requestData.path)>>
            [] param = S_contentType ->
                 <<ComponentLine(S_contentType,
                     IF Truthy(requestData.contentType)
                     THEN requestData.contentType.v ELSE S_appjson)>>
            [] param = S_host ->
                 <<ComponentLine(S_host, requestData.host)>>
            [] OTHER ->
                 IF Truthy(RequestDataProperty(requestData, param))
                 THEN <<ComponentLine(param, RequestDataProperty(requestData, param).v)>>
                 ELSE <<>>
        RECURSIVE go(_)
        go(i) == IF i > Len(params) THEN <<>> ELSE line(params[i]) \o go(i + 1)
    IN  go(1)

\* variant: the header value with its label kept
SignatureParams_labelled(signatureInputHeader) == signatureInputHeader

\* signatureInputHeader.substring(5) when it starts with 'sig2='
SignatureParams(signatureInputHeader) ==
    IF StartsWith(signatureInputHeader, S_sig2eq)
    THEN SubSeq(signatureInputHeader, SIG_PREFIX_LEN + 1, Len(signatureInputHeader))
    ELSE signatureInputHeader

\* variant: the @signature-params line put first
buildRFC9421SignatureString_paramsFirst(params, requestData, signatureInputHeader) ==
    JoinWith(<<ComponentLine(S_sigparams, SignatureParams(signatureInputHeader))>>
               \o ComponentLines(params, requestData),
             <<"\n">>)

buildRFC9421SignatureString(params, requestData, signatureInputHeader) ==
    JoinWith(ComponentLines(params, requestData)
               \o <<ComponentLine(S_sigparams, SignatureParams(signatureInputHeader))>>,
             <<"\n">>)

\* what req.get('host'), req.url and req.get('content-type') give
RequestData(req) ==
    [authority |-> req.host, path |-> req.url,
     contentType |-> req.contentType, host |-> req.host]

-----------------------------------------------------------------------------
(* Keys and signatures.  A public key is [fmt, pair]: fmt "raw32" (base64  *)
(* of 32 bytes), "pem" (an SPKI RSA PEM block) or "junk"; pair names the   *)
(* key pair.  A signature is [fmt, pair, authority, path, own]: fmt        *)
(* "sig64" (64 bytes, Ed25519), "pss" (RSA-PSS/SHA-256, maximal salt),     *)
(* "junk" or "empty"; it was made with the private key of pair over the    *)
(* base string of a request to authority and path that carries the same    *)
(* signature-input and content-type (own) or over some other text.         *)

NoSignature == [present |-> FALSE, label |-> <<>>,
                sig |-> [fmt |-> "empty", pair |-> "", authority |-> <<>>,
                         path |-> <<>>, own |-> FALSE]]

\* the value of the header called name among the headers sent, names
\* compared without regard to case
HeaderValue(headers, name) ==
    LET idx == {i \in DOMAIN headers :
                  ToLowerCase(headers[i].name) = ToLowerCase(name)}
    IN  IF idx = {} THEN Undef
        ELSE Str(headers[CHOOSE i \in idx : \A j \in idx : i <= j].value)

\* the signature base of the agent: a line per covered component, then the
\* @signature-params line with the header value after "LABEL="
RECURSIVE SignerLines(_, _, _, _, _)
SignerLines(params, authority, path, contentType, headers) ==
    IF params = <<>> THEN <<>>
    ELSE LET c == Head(params)
             value == CASE c = S_authority -> authority
                        [] c = S_path -> path
                        [] c = S_host -> authority
                        [] c = S_contentType -> contentType.v
                        [] OTHER -> HeaderValue(headers, c).v
         IN  Quoted(c) \o <<":", " ">> \o value \o <<"\n">>
               \o SignerLines(Tail(params), authority, path, contentType, headers)

SignerBase(sigInput, authority, path, contentType, headers) ==
    SignerLines(sigInput.params, authority, path, contentType, headers)
      \o Quoted(S_sigparams) \o <<":", " ">>
      \o SubSeq(RenderSigInput(sigInput), Len(sigInput.label) + 2,
                Len(RenderSigInput(sigInput)))

\* the text the signer signed
SignedText(sig, req) ==
    IF sig.own
    THEN SignerBase(req.sigInput, sig.authority, sig.path, req.contentType,
                    req.otherHeaders)
    ELSE <<>>

\* /sig2=:([^:]+):/
SignatureMatches(h) == h.present /\ h.label = S_sig2 /\ h.sig.fmt # "empty"

verifyEd25519Signature(publicKey, sig, signatureString, req) ==
    /\ publicKey.fmt = "raw32"
    /\ sig.fmt = "sig64"
    /\ sig.pair = publicKey.pair
    /\ SignedText(sig, req) = signatureString

verifyRSASignature(publicKey, sig, signatureString, req) ==
    /\ publicKey.fmt = "pem"
    /\ sig.fmt = "pss"
    /\ sig.pair = publicKey.pair
    /\ SignedText(sig, req) = signatureString

-----------------------------------------------------------------------------
(* Key records, registry answers, the key cache *)

\* response.data: shape "object" (a JSON object), "string" (a body that is
\* not JSON: axios hands the text over), "empty" (an empty body) or "null"
KeyData(shape, keyId, alg, active, pk) ==
    [shape |-> shape, key_id |-> keyId, algorithm |-> alg,
     is_active |-> active, public_key |-> pk]

NoKey == [fmt |-> "junk", pair |-> ""]
NullKey == KeyData("null", Undef, Undef, Undef, NoKey)
TextBody == KeyData("string", Undef, Undef, Undef, NoKey)
EmptyBody == KeyData("empty", Undef, Undef, Undef, NoKey)

\* !keyInfo
Falsy(keyInfo) == keyInfo.shape \in {"null", "empty"}

\* an answer of the registry: the HTTP status (0: no answer, a transport
\* error) and the body
Answer(status, data) == [status |-> status, data |-> data]

CacheKey(keyId) == S_keyColon \o keyId

CacheHas(cache, ck) == \E e \in cache : e.ck = ck
CacheGet(cache, ck) == CHOOSE e \in cache : e.ck = ck
CacheDelete(cache, ck) == {e \in cache : e.ck # ck}
CacheSet(cache, ck, key, t) ==
    CacheDelete(cache, ck) \cup {[ck |-> ck, key |-> key, timestamp |-> t]}

CacheFresh_inclusive(entry, t) == t - entry.timestamp <= CACHE_TTL

\* Date.now() - cached.timestamp < CACHE_TTL
CacheFresh(entry, t) == t - entry.timestamp < CACHE_TTL

\* getKeyById up to its await: [hit, key, cache, age]; age is the age of the
\* entry found (-1: none)
\* variant: the cache is not consulted
GetKeyByIdLookup_noCache(cache, keyId, t) ==
    [hit |-> FALSE, key |-> NullKey, cache |-> cache, age |-> -1]

GetKeyByIdLookup(cache, keyId, t) ==
    LET ck == CacheKey(keyId)
    IN  IF CacheHas(cache, ck)
        THEN LET cached == CacheGet(cache, ck)
             IN  IF CacheFresh(cached, t)
                 THEN [hit |-> TRUE, key |-> cached.key, cache |-> cache,
                       age |-> t - cached.timestamp]
                 ELSE [hit |-> FALSE, key |-> NullKey,
                       cache |-> CacheDelete(cache, ck),
                       age |-> t - cached.timestamp]
        ELSE [hit |-> FALSE, key |-> NullKey, cache |-> cache, age |-> -1]

\* variant: every answer is put into the cache
GetKeyByIdResume_cacheAll(cache, keyId, resp, t) ==
    [key |-> IF resp.status = 200 /\ resp.data.shape # "null"
             THEN resp.data ELSE NullKey,
     cache |-> CacheSet(cache, CacheKey(keyId), resp.data, t)]

\* getKeyById after its await: [key, cache].  axios rejects on a transport
\* error and on every status outside 2xx; reading keyData.key_id of a null
\* body throws; both land in the catch block, which returns null
GetKeyByIdResume(cache, keyId, resp, t) ==
    IF resp.status = 200 /\ resp.data.shape # "null"
    THEN [key |-> resp.data,
          cache |-> CacheSet(cache, CacheKey(keyId), resp.data, t)]
    ELSE [key |-> NullKey, cache |-> cache]

-----------------------------------------------------------------------------
(* The nonce cache *)

NonceHas(nonces, nonce) == \E e \in nonces : e.nonce = nonce
NonceGet(nonces, nonce) == (CHOOSE e \in nonces : e.nonce = nonce).timestamp
NonceSet(nonces, nonce, t) ==
    {e \in nonces : e.nonce # nonce} \cup {[nonce |-> nonce, timestamp |-> t]}

\* variant: an entry is swept once its age has reached NONCE_TTL
NonceExpired_atTTL(entry, t) == t - entry.timestamp >= NONCE_TTL

NonceExpired_early(entry, t) == t - entry.timestamp >= 0

\* now - timestamp > NONCE_TTL
NonceExpired(entry, t) == t - entry.timestamp > NONCE_TTL

-----------------------------------------------------------------------------
(* verifySignature *)

Outcomes ==
    [SIGNATURE_REQUIRED |-> 403, INVALID_ENVELOPE |-> 403,
     INVALID_KEY_ID |-> 403, BOT_TRAFFIC |-> 403, KEY_NOT_FOUND |-> 403,
     KEY_INACTIVE |-> 403, TIMESTAMP_FUTURE |-> 403,
     SIGNATURE_EXPIRED |-> 403, MISSING_NONCE |-> 403, REPLAY |-> 403,
     INVALID_SIGNATURE_FORMAT |-> 403, UNSUPPORTED_ALGORITHM |-> 400,
     SIGNATURE_BAD |-> 403, SERVER_ERROR |-> 500,
     FORWARD |-> 0, PASS |-> 0]

\* the status sent by sendErrorResponse; 0: next() was called instead
StatusOf(kind) == Outcomes[kind]

\* ToNumber of a parsed attribute: [ok, n]; a string that is not a digit run
\* is NaN, and every comparison with NaN is false
ToNumber(x) ==
    CASE x.t = "number" -> [ok |-> TRUE, n |-> x.v[1]]
      [] x.t = "string" /\ x.v # <<>>
           /\ \A i \in 1..Len(x.v) : x.v[i] \in Range(DigitChars)
           -> [ok |-> TRUE, n |-> ParseInt(x.v)]
      [] OTHER -> [ok |-> FALSE, n |-> 0]

CreatedInFuture_atSkew(created, nowSec) ==
    /\ Truthy(created)
    /\ ToNumber(created).ok
    /\ ToNumber(created).n >= nowSec + CLOCK_SKEW

\* signatureData.created && signatureData.created > now + 60
CreatedInFuture(created, nowSec) ==
    /\ Truthy(created)
    /\ ToNumber(created).ok
    /\ ToNumber(created).n > nowSec + CLOCK_SKEW

\* signatureData.expires && signatureData.expires < now
Expired(expires, nowSec) ==
    /\ Truthy(expires)
    /\ ToNumber(expires).ok
    /\ ToNumber(expires).n < nowSec

IsActive_truthy(keyInfo) == Truthy(keyInfo.is_active)

\* keyInfo.is_active !== 'true', negated
IsActive(keyInfo) == StrictEq(keyInfo.is_active, Str(S_true))

\* variant: the nonce is recorded once the signature has verified
VerifyWithKey_recordOnForward(req, signatureData, keyInfo, nonces, t) ==
    LET nowSec == t \div 1000
        nonce == signatureData.nonce
        recorded == NonceSet(nonces, nonce, t)
        signatureBaseString ==
            buildRFC9421SignatureString(signatureData.params, RequestData(req),
                                        RenderSigInput(req.sigInput))
        algorithm == ToLowerCase(signatureData.algorithm.v)
        isValidSignature ==
            IF algorithm = S_rsa
            THEN verifyRSASignature(keyInfo.public_key, req.signature.sig,
                                    signatureBaseString, req)
            ELSE verifyEd25519Signature(keyInfo.public_key, req.signature.sig,
                                        signatureBaseString, req)
    IN  IF Falsy(keyInfo)
        THEN [kind |-> "KEY_NOT_FOUND", nonces |-> nonces]
        ELSE IF ~IsActive(keyInfo)
        THEN [kind |-> "KEY_INACTIVE", nonces |-> nonces]
        ELSE IF CreatedInFuture(signatureData.created, nowSec)
        THEN [kind |-> "TIMESTAMP_FUTURE", nonces |-> nonces]
        ELSE IF Expired(signatureData.expires, nowSec)
        THEN [kind |-> "SIGNATURE_EXPIRED", nonces |-> nonces]
        ELSE IF ~Truthy(nonce)
        THEN [kind |-> "MISSING_NONCE", nonces |-> nonces]
        ELSE IF NonceHas(nonces, nonce)
        THEN [kind |-> "REPLAY", nonces |-> nonces]
        ELSE IF ~SignatureMatches(req.signature)
        THEN [kind |-> "INVALID_SIGNATURE_FORMAT", nonces |-> nonces]
        ELSE IF signatureData.algorithm.t # "string"
        THEN \* undefined.toLowerCase(): TypeError, caught at the end
             [kind |-> "SERVER_ERROR", nonces |-> nonces]
        ELSE IF algorithm \notin {S_rsa, S_ed25519}
        THEN [kind |-> "UNSUPPORTED_ALGORITHM", nonces |-> nonces]
        ELSE IF ~isValidSignature
        THEN [kind |-> "SIGNATURE_BAD", nonces |-> nonces]
        ELSE [kind |-> "FORWARD", nonces |-> recorded]

\* variant: the nonce is recorded ahead of the temporal check
VerifyWithKey_recordBeforeTiming(req, signatureData, keyInfo, nonces, t) ==
    LET nowSec == t \div 1000
        nonce == signatureData.nonce
        recorded == NonceSet(nonces, nonce, t)
        signatureBaseString ==
            buildRFC9421SignatureString(signatureData.params, RequestData(req),
                                        RenderSigInput(req.sigInput))
        algorithm == ToLowerCase(signatureData.algorithm.v)
        isValidSignature ==
            IF algorithm = S_rsa
            THEN verifyRSASignature(keyInfo.public_key, req.signature.sig,
                                    signatureBaseString, req)
            ELSE verifyEd25519Signature(keyInfo.public_key, req.signature.sig,
                                        signatureBaseString, req)
    IN  IF Falsy(keyInfo)
        THEN [kind |-> "KEY_NOT_FOUND", nonces |-> nonces]
        ELSE IF ~IsActive(keyInfo)
        THEN [kind |-> "KEY_INACTIVE", nonces |-> nonces]
        ELSE IF CreatedInFuture(signatureData.created, nowSec)
        THEN [kind |-> "TIMESTAMP_FUTURE", nonces |-> recorded]
        ELSE IF Expired(signatureData.expires, nowSec)
        THEN [kind |-> "SIGNATURE_EXPIRED", nonces |-> recorded]
        ELSE IF ~Truthy(nonce)
        THEN [kind |-> "MISSING_NONCE", nonces |-> nonces]
        ELSE IF NonceHas(nonces, nonce)
        THEN [kind |-> "REPLAY", nonces |-> nonces]
        ELSE IF ~SignatureMatches(req.signature)
        THEN [kind |-> "INVALID_SIGNATURE_FORMAT", nonces |-> recorded]
        ELSE IF signatureData.algorithm.t # "string"
        THEN \* undefined.toLowerCase(): TypeError, caught at the end
             [kind |-> "SERVER_ERROR", nonces |-> recorded]
        ELSE IF algorithm \notin {S_rsa, S_ed25519}
        THEN [kind |-> "UNSUPPORTED_ALGORITHM", nonces |-> recorded]
        ELSE IF ~isValidSignature
        THEN [kind |-> "SIGNATURE_BAD", nonces |-> recorded]
        ELSE [kind |-> "FORWARD", nonces |-> recorded]

\* variant: a replayed nonce is stamped anew
VerifyWithKey_refreshOnReplay(req, signatureData, keyInfo, nonces, t) ==
    LET nowSec == t \div 1000
        nonce == signatureData.nonce
        recorded == NonceSet(nonces, nonce, t)
        signatureBaseString ==
            buildRFC9421SignatureString(signatureData.params, RequestData(req),
                                        RenderSigInput(req.sigInput))
        algorithm == ToLowerCase(signatureData.algorithm.v)
        isValidSignature ==
            IF algorithm = S_rsa
            THEN verifyRSASignature(keyInfo.public_key, req.signature.sig,
                                    signatureBaseString, req)
            ELSE verifyEd25519Signature(keyInfo.public_key, req.signature.sig,
                                        signatureBaseString, req)
    IN  IF Falsy(keyInfo)
        THEN [kind |-> "KEY_NOT_FOUND", nonces |-> nonces]
        ELSE IF ~IsActive(keyInfo)
        THEN [kind |-> "KEY_INACTIVE", nonces |-> nonces]
        ELSE IF CreatedInFuture(signatureData.created, nowSec)
        THEN [kind |-> "TIMESTAMP_FUTURE", nonces |-> nonces]
        ELSE IF Expired(signatureData.expires, nowSec)
        THEN [kind |-> "SIGNATURE_EXPIRED", nonces |-> nonces]
        ELSE IF ~Truthy(nonce)
        THEN [kind |-> "MISSING_NONCE", nonces |-> nonces]
        ELSE IF NonceHas(nonces, nonce)
        THEN [kind |-> "REPLAY", nonces |-> recorded]
        ELSE IF ~SignatureMatches(req.signature)
        THEN [kind |-> "INVALID_SIGNATURE_FORMAT", nonces |-> recorded]
        ELSE IF signatureData.algorithm.t # "string"
        THEN \* undefined.toLowerCase(): TypeError, caught at the end
             [kind |-> "SERVER_ERROR", nonces |-> recorded]
        ELSE IF algorithm \notin {S_rsa, S_ed25519}
        THEN [kind |-> "UNSUPPORTED_ALGORITHM", nonces |-> recorded]
        ELSE IF ~isValidSignature
        THEN [kind |-> "SIGNATURE_BAD", nonces |-> recorded]
        ELSE [kind |-> "FORWARD", nonces |-> recorded]

\* verifySignature from the result of getKeyById to its end, at time t (ms):
\* [kind, nonces].  Nothing in it suspends before the verifier is awaited,
\* and the verifiers contain no await of their own.
\* variant: the replay guard keyed on the keyId and the nonce together
VerifyWithKey_noncePerKey(req, signatureData, keyInfo, nonces, t) ==
    LET nowSec == t \div 1000
        nonce == signatureData.nonce
        perKey == Str(signatureData.keyId.v \o <<":">> \o nonce.v)
        recorded == NonceSet(nonces, perKey, t)
        signatureBaseString ==
            buildRFC9421SignatureString(signatureData.params, RequestData(req),
                                        RenderSigInput(req.sigInput))
        algorithm == ToLowerCase(signatureData.algorithm.v)
        isValidSignature ==
            IF algorithm = S_rsa
            THEN verifyRSASignature(keyInfo.public_key, req.signature.sig,
                                    signatureBaseString, req)
            ELSE verifyEd25519Signature(keyInfo.public_key, req.signature.sig,
                                        signatureBaseString, req)
    IN  IF Falsy(keyInfo)
        THEN [kind |-> "KEY_NOT_FOUND", nonces |-> nonces]
        ELSE IF ~IsActive(keyInfo)
        THEN [kind |-> "KEY_INACTIVE", nonces |-> nonces]
        ELSE IF CreatedInFuture(signatureData.created, nowSec)
        THEN [kind |-> "TIMESTAMP_FUTURE", nonces |-> nonces]
        ELSE IF Expired(signatureData.expires, nowSec)
        THEN [kind |-> "SIGNATURE_EXPIRED", nonces |-> nonces]
        ELSE IF ~Truthy(nonce)
        THEN [kind |-> "MISSING_NONCE", nonces |-> nonces]
        ELSE IF NonceHas(nonces, perKey)
        THEN [kind |-> "REPLAY", nonces |-> nonces]
        ELSE IF ~SignatureMatches(req.signature)
        THEN [kind |-> "INVALID_SIGNATURE_FORMAT", nonces |-> recorded]
        ELSE IF signatureData.algorithm.t # "string"
        THEN \* undefined.toLowerCase(): TypeError, caught at the end
             [kind |-> "SERVER_ERROR", nonces |-> recorded]
        ELSE IF algorithm \notin {S_rsa, S_ed25519}
        THEN [kind |-> "UNSUPPORTED_ALGORITHM", nonces |-> recorded]
        ELSE IF ~isValidSignature
        THEN [kind |-> "SIGNATURE_BAD", nonces |-> recorded]
        ELSE [kind |-> "FORWARD", nonces |-> recorded]

VerifyWithKey(req, signatureData, keyInfo, nonces, t) ==
    LET nowSec == t \div 1000
        nonce == signatureData.nonce
        recorded == NonceSet(nonces, nonce, t)
        signatureBaseString ==
            buildRFC9421SignatureString(signatureData.params, RequestData(req),
                                        RenderSigInput(req.sigInput))
        algorithm == ToLowerCase(signatureData.algorithm.v)
        isValidSignature ==
            IF algorithm = S_rsa
            THEN verifyRSASignature(keyInfo.public_key, req.signature.sig,
                                    signatureBaseString, req)
            ELSE verifyEd25519Signature(keyInfo.public_key, req.signature.sig,
                                        signatureBaseString, req)
    IN  IF Falsy(keyInfo)
        THEN [kind |-> "KEY_NOT_FOUND", nonces |-> nonces]
        ELSE IF ~IsActive(keyInfo)
        THEN [kind |-> "KEY_INACTIVE", nonces |-> nonces]
        ELSE IF CreatedInFuture(signatureData.created, nowSec)
        THEN [kind |-> "TIMESTAMP_FUTURE", nonces |-> nonces]
        ELSE IF Expired(signatureData.expires, nowSec)
        THEN [kind |-> "SIGNATURE_EXPIRED", nonces |-> nonces]
        ELSE IF ~Truthy(nonce)
        THEN [kind |-> "MISSING_NONCE", nonces |-> nonces]
        ELSE IF NonceHas(nonces, nonce)
        THEN [kind |-> "REPLAY", nonces |-> nonces]
        ELSE IF ~SignatureMatches(req.signature)
        THEN [kind |-> "INVALID_SIGNATURE_FORMAT", nonces |-> recorded]
        ELSE IF signatureData.algorithm.t # "string"
        THEN \* undefined.toLowerCase(): TypeError, caught at the end
             [kind |-> "SERVER_ERROR", nonces |-> recorded]
        ELSE IF algorithm \notin {S_rsa, S_ed25519}
        THEN [kind |-> "UNSUPPORTED_ALGORITHM", nonces |-> recorded]
        ELSE IF ~isValidSignature
        THEN [kind |-> "SIGNATURE_BAD", nonces |-> recorded]
        ELSE [kind |-> "FORWARD", nonces |-> recorded]

\* variant: every path is gated
isProductsApiRoute_all(req) == req.url = req.url

\* the gate: url.toLowerCase().startsWith('/product/')
isProductsApiRoute(req) == StartsWith(ToLowerCase(req.url), S_productPrefix)

\* variant: one of the two headers is enough
hasSignatureHeaders_either(req) == req.sigInput.present \/ req.signature.present

\* req.headers['signature-input'] && req.headers['signature']
hasSignatureHeaders(req) == req.sigInput.present /\ req.signature.present

\* the gate and verifySignature up to the call of getKeyById:
\* "" when the request goes on to the key lookup, else the outcome
BeforeLookup(req) ==
    LET signatureData == parseRFC9421SignatureInput(req.sigInput)
    IN  IF ~isProductsApiRoute(req) THEN "PASS"
        ELSE IF ~hasSignatureHeaders(req) THEN "SIGNATURE_REQUIRED"
        ELSE IF ~signatureData.ok THEN "INVALID_ENVELOPE"
        ELSE IF ~validateKeyId(signatureData.keyId) THEN "INVALID_KEY_ID"
        ELSE IF ~Truthy(signatureData.keyId) \/ ~req.sigInput.present
                  \/ ~req.signature.present
        THEN "BOT_TRAFFIC"
        ELSE ""

-----------------------------------------------------------------------------
(* The handlers of the application, in the order of their registration:    *)
(* the security middleware, GET /test-proxy, the gate, the proxy mounted   *)
(* at /api and the proxy of everything else.                               *)

\* res.setHeader(name, value)
SetHeader(headers, name, value) ==
    {h \in headers : h.name # name} \cup {[name |-> name, value |-> value]}

\* variant: X-Frame-Options is not set
securityMiddleware_noFrameOptions(headers) ==
    SetHeader(
      SetHeader(
        SetHeader(
          SetHeader(headers, "Content-Security-Policy",
                    "default-src 'self'; script-src 'self' 'unsafe-inline' 'unsafe-eval'; style-src 'self' 'unsafe-inline'; img-src 'self' data: blob: https: http:; font-src 'self'; connect-src 'self' ws: wss:; frame-ancestors 'none';"),
          "X-Content-Type-Options", "nosniff"),
        "X-XSS-Protection", "1; mode=block"),
      "Referrer-Policy", "strict-origin-when-cross-origin")

\* the first handler: it sets the security headers on the response and
\* calls next()
securityMiddleware(headers) ==
    SetHeader(
      SetHeader(
        SetHeader(
          SetHeader(
            SetHeader(headers, "Content-Security-Policy",
                      "default-src 'self'; script-src 'self' 'unsafe-inline' 'unsafe-eval'; style-src 'self' 'unsafe-inline'; img-src 'self' data: blob: https: http:; font-src 'self'; connect-src 'self' ws: wss:; frame-ancestors 'none';"),
            "X-Content-Type-Options", "nosniff"),
          "X-Frame-Options", "DENY"),
        "X-XSS-Protection", "1; mode=block"),
      "Referrer-Policy", "strict-origin-when-cross-origin")

\* the headers of a response no handler has touched
NoHeaders == {}

\* req.path: the URL up to the query string
RECURSIVE PathOf(_)
PathOf(url) ==
    IF url = <<>> \/ Head(url) = "?" THEN <<>>
    ELSE <<Head(url)>> \o PathOf(Tail(url))

\* variant: any path that begins with the mount path
MountMatches_prefix(url, mount) == StartsWith(PathOf(url), mount)

\* Express matches a mount path case-insensitively, on whole segments
MountMatches(url, mount) ==
    LET path == ToLowerCase(PathOf(url))
    IN  \/ path = mount
        \/ StartsWith(path, mount \o <<"/">>)

\* app.get('/test-proxy', ...)
TestProxyMatches(req) ==
    /\ req.method = "GET"
    /\ ToLowerCase(PathOf(req.url)) \in {S_testProxy, S_testProxy \o <<"/">>}

NoSend == [target |-> <<>>]

\* createProxyMiddleware({target, changeOrigin: true}): the request goes to
\* the target with its method, URL, headers and body, and with the Host
\* header set to the target's host
ProxyRequest(req, target) ==
    [target |-> target, method |-> req.method, url |-> req.url,
     host |-> target, contentType |-> req.contentType,
     sigInput |-> req.sigInput, signature |-> req.signature,
     otherHeaders |-> req.otherHeaders, body |-> req.body]

\* what the route handlers do with a request the gate does not stop: the
\* handler that takes it and the request sent to an upstream
Dispatch(req) ==
    IF TestProxyMatches(req)
    THEN [route |-> "test-proxy", sent |-> NoSend]
    ELSE IF MountMatches(req.url, S_api)
    THEN [route |-> "api", sent |-> ProxyRequest(req, S_apiHost)]
    ELSE [route |-> "app", sent |-> ProxyRequest(req, S_appHost)]

NotDispatched == [route |-> "", sent |-> NoSend]

-----------------------------------------------------------------------------
(* The sampled requests.  The agent's key pairs: "A" (Ed25519, registered  *)
(* as k1) and "B" (RSA, registered as k2); "X" is a pair the registry does *)
(* not know.                                                               *)

StartMs == StartSec * 1000

Components == <<S_authority, S_path>>

\* signature-input: sig2=("@authority" "@path"); created=..; expires=..;
\*                  keyId=".."; alg=".."; nonce=".."; tag="browse"
\* each argument is the sequence of pairs (none or one) written for that key
Envelope(label, created, expires, keyId, alg, nonce) ==
    [present |-> TRUE, label |-> label, params |-> Components,
     attrs |-> created \o expires \o keyId \o alg \o nonce
                 \o <<QAttr(S_tag, S_browse)>>]

SignatureHeader(label, fmt, pair, path, own) ==
    [present |-> TRUE, label |-> label,
     sig |-> [fmt |-> fmt, pair |-> pair, authority |-> S_shop,
              path |-> path, own |-> own]]

Request(url, sigInput, signature) ==
    [method |-> "GET", url |-> url, host |-> S_shop, contentType |-> Undef,
     sigInput |-> sigInput, signature |-> signature, otherHeaders |-> <<>>,
     body |-> <<>>]

\* the same request sent as a POST with a body
Posted(req, body) == [req EXCEPT !.method = "POST", !.body = body]

AlgOf(keyId) == IF keyId = S_k1 THEN S_ed25519 ELSE S_rsa
FmtOf(keyId) == IF keyId = S_k1 THEN "sig64" ELSE "pss"
PairOf(keyId) == IF keyId = S_k1 THEN "A" ELSE "B"

Created0 == <<NAttr(S_created, StartSec)>>
Expires0 == <<NAttr(S_expires, StartSec + 7200)>>

\* a correctly signed request of the agent holding keyId, with nonce
Signed(url, keyId, nonce) ==
    Request(url,
            Envelope(S_sig2, Created0, Expires0, <<QAttr(S_keyId, keyId)>>,
                     <<QAttr(S_alg, AlgOf(keyId))>>, <<QAttr(S_nonce, nonce)>>),
            SignatureHeader(S_sig2, FmtOf(keyId), PairOf(keyId), url, TRUE))

\* the same request of k1 with nonce n1, its envelope varied and signed anew
Varied(created, expires, keyId, alg, nonce) ==
    Request(S_product1,
            Envelope(S_sig2, created, expires, keyId, alg, nonce),
            SignatureHeader(S_sig2, "sig64", "A", S_product1, TRUE))

K1 == <<QAttr(S_keyId, S_k1)>>
Ed == <<QAttr(S_alg, S_ed25519)>>
N1 == <<QAttr(S_nonce, S_n1)>>

\* the same request with another companion header
Resigned(signature) ==
    Request(S_product1, Envelope(S_sig2, Created0, Expires0, K1, Ed, N1),
            signature)

GoodRequests ==
    {Signed(S_product1, k, n) : k \in {S_k1, S_k2}, n \in {S_n1, S_n2}}
      \cup {Signed(S_Product1, S_k1, S_n1)}

TimedRequests ==
    {Varied(c, e, K1, Ed, N1) :
        c \in {<<>>, Created0, <<NAttr(S_created, StartSec + CLOCK_SKEW + 1)>>},
        e \in {<<>>, Expires0, <<NAttr(S_expires, 0)>>,
               <<NAttr(S_expires, StartSec)>>}}

NonceRequests ==
    {Varied(Created0, Expires0, K1, Ed, n) :
        n \in {<<>>, <<NAttr(S_nonce, 7)>>, <<QAttr(S_nonce, <<>>)>>}}

AlgRequests ==
    {Varied(Created0, Expires0, K1, a, N1) :
        a \in {<<>>, <<QAttr(S_alg, S_ED25519)>>, <<QAttr(S_alg, S_hmac)>>,
               <<QAttr(S_alg, S_rsa)>>, <<NAttr(S_alg, 1)>>}}

KeyIdRequests ==
    {Varied(Created0, Expires0, k, Ed, N1) :
        k \in {<<>>, <<QAttr(S_keyId, S_badKey)>>, <<QAttr(S_keyId, <<>>)>>,
               <<NAttr(S_keyId, 1)>>,
               <<QAttr(S_keyId, [i \in 1..LongKeyLen |-> "a"])>>}}

SignatureRequests ==
    {Resigned(SignatureHeader(S_sig1, "sig64", "A", S_product1, TRUE)),
     Resigned(SignatureHeader(S_sig2, "empty", "", <<>>, FALSE)),
     Resigned(SignatureHeader(S_sig2, "sig64", "X", S_product1, TRUE)),
     Resigned(SignatureHeader(S_sig2, "sig64", "A", S_about, TRUE)),
     Resigned(NoSignature)}

EnvelopeRequests ==
    {Request(S_product1, NoSigInput, NoSignature),
     Request(S_product1, NoSigInput,
             SignatureHeader(S_sig2, "sig64", "A", S_product1, TRUE)),
     Request(S_product1, Envelope(S_sig1, Created0, Expires0, K1, Ed, N1),
             SignatureHeader(S_sig1, "sig64", "A", S_product1, TRUE)),
     Request(S_product1,
             [present |-> TRUE, label |-> S_sig2, params |-> Components,
              attrs |-> <<>>],
             SignatureHeader(S_sig2, "sig64", "A", S_product1, TRUE)),
     Request(S_product1,
             [present |-> TRUE, label |-> S_sig2, params |-> <<>>,
              attrs |-> Created0 \o K1 \o Ed \o N1],
             SignatureHeader(S_sig2, "sig64", "A", S_product1, TRUE))}

UngatedRequests ==
    {Request(S_about, NoSigInput, NoSignature),
     Request(S_about, Envelope(S_sig1, <<>>, <<>>, <<>>, <<>>, <<>>),
             SignatureHeader(S_sig1, "junk", "", <<>>, FALSE))}

\* the same request with one more header
WithHeader(req, name, value) ==
    [req EXCEPT !.otherHeaders = @ \o <<[name |-> name, value |-> value]>>]

LongValue == [i \in 1..LongValueLen |-> "a"]

\* values that reach the log: long ones, ones with a tab or a line break
\* inside a quoted string, a header with a long name
LoggedRequests ==
    {Varied(Created0, Expires0, K1, <<QAttr(S_alg, LongValue)>>, N1),
     Varied(Created0, Expires0, K1, <<QAttr(S_alg, <<"E", "d", "\t", "1">>)>>, N1),
     Varied(Created0, Expires0, K1, Ed, <<QAttr(S_nonce, <<"n", "\t", " ", "1">>)>>),
     Varied(Created0, Expires0, K1, Ed, <<QAttr(S_nonce, LongValue)>>),
     WithHeader(Request(S_about, NoSigInput, NoSignature), LongValue, S_true)}

\* created after expires, and created equal to expires
MisorderedRequests ==
    {Varied(<<NAttr(S_created, StartSec + CLOCK_SKEW)>>,
            <<NAttr(S_expires, StartSec + 1)>>, K1, Ed, N1),
     Varied(<<NAttr(S_created, StartSec + 1)>>,
            <<NAttr(S_expires, StartSec + 1)>>, K1, Ed, N1)}

\* the request of k1 signed over another component list
Covering(params, nonce) ==
    [Signed(S_product1, S_k1, nonce) EXCEPT !.sigInput.params = params]

\* component lists in another order, with the two header components the
\* switch knows, with a component that is the name of a header the request
\* carries (x-agent, sent as X-Agent) or does not carry
CoveringRequests ==
    {Covering(<<S_path, S_authority>>, S_n1),
     Covering(<<S_authority, S_contentType, S_host, S_path>>, S_n1),
     Covering(<<S_xagent>>, S_n1),
     Covering(<<S_authority, S_xagent, S_path>>, S_n1),
     WithHeader(Covering(<<S_authority, S_xagent, S_path>>, S_n1),
                <<"X", "-", "A", "g", "e", "n", "t">>, S_browse)}

\* requests to the routes of the proxy, with and without signature headers
RouteRequests ==
    {Request(S_Product1, NoSigInput, NoSignature),
     Request(S_orders, NoSigInput, NoSignature),
     Posted(Request(S_cartAdd, NoSigInput, NoSignature), <<"{", "}">>),
     Posted(Signed(S_cartAdd, S_k1, S_n1), <<"{", "}">>),
     Request(S_testProxy, NoSigInput, NoSignature),
     Posted(Request(S_testProxy, NoSigInput, NoSignature), <<>>),
     Request(S_apiCart, NoSigInput, NoSignature),
     Request(S_APIcart, NoSigInput, NoSignature),
     Request(S_apix, NoSigInput, NoSignature)}

AllRequests ==
    GoodRequests \cup TimedRequests \cup NonceRequests \cup AlgRequests
      \cup KeyIdRequests \cup SignatureRequests \cup EnvelopeRequests
      \cup UngatedRequests \cup RouteRequests \cup LoggedRequests
      \cup MisorderedRequests \cup CoveringRequests

\* what the registry may answer to GET /keys/<keyId>: the record of the key
\* in one of its states, 404, another status, no answer, or a body that is
\* not a key record
RegisteredKey(keyId, active) ==
    KeyData("object", Str(keyId), Str(AlgOf(keyId)), active,
            [fmt |-> IF keyId = S_k1 THEN "raw32" ELSE "pem",
             pair |-> PairOf(keyId)])

ActiveValues == {Str(S_true), Str(S_false), Str(S_TRUE), Bool(TRUE), Undef}

KeyAnswers(keyId) ==
    {Answer(200, RegisteredKey(keyId, a)) : a \in ActiveValues}

FaultAnswers ==
    {Answer(404, NullKey), Answer(500, NullKey), Answer(204, NullKey),
     Answer(0, NullKey), Answer(200, TextBody), Answer(200, EmptyBody),
     Answer(200, NullKey)}

AllAnswers(keyId) == KeyAnswers(keyId) \cup FaultAnswers

\* the instants at which the model looks at the clock, as offsets from the
\* start in milliseconds
AllTimes == {0, 1, CACHE_TTL, 1000, NONCE_TTL, NONCE_TTL + 1}

-----------------------------------------------------------------------------
(* The merchant frontend: the initial values of its components' state.     *)
(* null is Null; a cart is [present, items], a filter set is a record of   *)
(* the values of its keys, "" for a key it does not have.                  *)

Null == "null"

NoCart == [present |-> FALSE, items |-> 0]

\* CartContext.jsx: initialState
initialState ==
    [cart |-> NoCart, sessionId |-> Null, loading |-> FALSE, error |-> Null]

\* ProductsPage: useState([]) and useState({})
NoProducts == {}
NoFilters == [query |-> "", category |-> ""]

\* SearchFilters: useState('') of searchQuery and category
SearchFiltersInitial == [searchQuery |-> "", category |-> ""]

-----------------------------------------------------------------------------
(* State machine.  A request is held in the state by its index in          *)
(* RequestList; what the parser and the gate compute from it is tabulated. *)

RECURSIVE SeqOf(_)
SeqOf(S) ==
    IF S = {} THEN <<>>
    ELSE LET x == CHOOSE y \in S : TRUE IN <<x>> \o SeqOf(S \ {x})

RequestList == SeqOf(AllRequests)
RequestIds == 1..Len(RequestList)
IdOf(req) == CHOOSE i \in RequestIds : RequestList[i] = req
Ids(reqs) == {IdOf(req) : req \in reqs}

SignatureDataOf == [i \in RequestIds |-> parseRFC9421SignatureInput(RequestList[i].sigInput)]
BeforeLookupOf == [i \in RequestIds |-> BeforeLookup(RequestList[i])]
KeyIdOf(i) == SignatureDataOf[i].keyId.v
DispatchOf == [i \in RequestIds |-> Dispatch(RequestList[i])]

\* a completed request: which (0: none yet), how it ended (kind), when, the
\* key record it used, whether getKeyById answered from the cache, the age
\* of the cache entry it found (-1: none), the status of the registry's
\* answer (-1: no fetch), whether it recorded its nonce (fresh), whether
\* next() was called, the handler that then took the request and what it
\* sent to an upstream, and the headers the security middleware had set on
\* the response when the route handlers got the request
Event(id, kind, t, key, hit, age, status, fresh) ==
    [req |-> id, kind |-> kind, t |-> t, key |-> key, hit |-> hit,
     age |-> age, status |-> status, fresh |-> fresh,
     next |-> IF StatusOf(kind) = 0 THEN 1 ELSE 0,
     then |-> IF StatusOf(kind) = 0 /\ id # 0
              THEN DispatchOf[id] ELSE NotDispatched,
     headers |-> IF id # 0 THEN securityMiddleware(NoHeaders) ELSE NoHeaders]

Init ==
    /\ now = StartMs
    /\ keyCache = {}
    /\ nonceCache = {}
    /\ inflight = EmptyBag
    /\ last = Event(0, "PASS", StartMs, NullKey, FALSE, -1, -1, FALSE)
    /\ lastFresh = {}
    /\ registry = Str(S_true)
    /\ answers = EmptyBag
    /\ cartState = initialState
    /\ cartOps = [started |-> FALSE, pending |-> EmptyBag]
    /\ page = [products |-> NoProducts, total |-> 0, loading |-> TRUE,
               error |-> Null, currentFilters |-> NoFilters]
    /\ searchFilters = SearchFiltersInitial
    /\ pageCalls = [started |-> FALSE, loads |-> {}, timers |-> EmptyBag,
                    issued |-> 0, latest |-> NoFilters]

\* the request recorded its nonce
Recorded(id, done) ==
    /\ done.nonces # nonceCache
    /\ NonceHas(done.nonces, SignatureDataOf[id].nonce)

NoteFresh(id, done) ==
    IF Recorded(id, done)
    THEN NonceSet(lastFresh, SignatureDataOf[id].nonce, now)
    ELSE lastFresh

\* A request arrives: the gate middleware and verifySignature run until the
\* request is answered, passed on, or suspended in getKeyById's axios.get.
Arrive(id, K) ==
    LET req == RequestList[id]
        pre == BeforeLookupOf[id]
        lookup == GetKeyByIdLookup(keyCache, KeyIdOf(id), now)
        done == VerifyWithKey(req, SignatureDataOf[id], lookup.key, nonceCache, now)
    IN  \/ /\ pre # ""
           /\ last' = Event(id, pre, now, NullKey, FALSE, -1, -1, FALSE)
           /\ UNCHANGED <<now, keyCache, nonceCache, inflight, lastFresh,
                          frontendVars>>
        \/ /\ pre = ""
           /\ lookup.hit
           /\ nonceCache' = done.nonces
           /\ last' = Event(id, done.kind, now, lookup.key, TRUE, lookup.age, -1,
                            Recorded(id, done))
           /\ lastFresh' = NoteFresh(id, done)
           /\ UNCHANGED <<now, keyCache, inflight, frontendVars>>
        \/ /\ pre = ""
           /\ ~lookup.hit
           /\ BagCardinality(inflight) < K
           /\ keyCache' = lookup.cache
           /\ inflight' = inflight (+) SetToBag({[req |-> id, age |-> lookup.age]})
           /\ UNCHANGED <<now, nonceCache, last, lastFresh, frontendVars>>

\* The registry's answer to a suspended request arrives: getKeyById resumes,
\* then verifySignature runs to its end.
FetchReturn(e, resp) ==
    LET got == GetKeyByIdResume(keyCache, KeyIdOf(e.req), resp, now)
        done == VerifyWithKey(RequestList[e.req], SignatureDataOf[e.req],
                              got.key, nonceCache, now)
    IN  /\ BagIn(e, inflight)
        /\ inflight' = inflight (-) SetToBag({e})
        /\ keyCache' = got.cache
        /\ nonceCache' = done.nonces
        /\ last' = Event(e.req, done.kind, now, got.key, FALSE, e.age,
                         resp.status, Recorded(e.req, done))
        /\ lastFresh' = NoteFresh(e.req, done)
        /\ UNCHANGED <<now, frontendVars>>

\* the setInterval callback
Sweep ==
    /\ nonceCache' = {e \in nonceCache : ~NonceExpired(e, now)}
    /\ UNCHANGED <<now, keyCache, inflight, last, lastFresh,
                   registryVars, frontendVars>>

\* time passes
Tick(Times) ==
    /\ \E d \in Times : StartMs + d > now /\ now' = StartMs + d
    /\ UNCHANGED <<keyCache, nonceCache, inflight, last, lastFresh,
                   registryVars, frontendVars>>

NextOn(Reqs, Times, Actives, Faults, K) ==
    \/ \E id \in Reqs : Arrive(id, K) /\ UNCHANGED registryVars
    \/ \E e \in BagToSet(inflight) :
         \E resp \in {Answer(200, RegisteredKey(KeyIdOf(e.req), a)) : a \in Actives}
                       \cup Faults :
           FetchReturn(e, resp) /\ UNCHANGED registryVars
    \/ Sweep
    \/ Tick(Times)

-----------------------------------------------------------------------------
(* Specifications: the same program, each on the requests, instants and    *)
(* registry answers its properties are about.                               *)

NotFound == Answer(404, NullKey)
Registered == {Str(S_true)}

\* the pipeline from the key lookup on
PipelineRequests ==
    Ids({Signed(S_product1, S_k1, S_n1), Signed(S_product1, S_k2, S_n1),
         Request(S_about, NoSigInput, NoSignature),
         Varied(Created0, Expires0, K1, Ed, <<>>),
         Varied(Created0, Expires0, K1, <<>>, N1),
         Varied(Created0, Expires0, K1, <<QAttr(S_alg, S_ED25519)>>, N1),
         Varied(Created0, Expires0, K1, <<QAttr(S_alg, S_hmac)>>, N1)}
          \cup SignatureRequests)
PipelineTimes == {0, 1}

Next == NextOn(PipelineRequests, PipelineTimes, Registered, {NotFound}, MaxInFlight)

Spec == Init /\ [][Next]_vars

\* created and expires against the clock, over two seconds
TimeRequests == Ids(TimedRequests \cup UngatedRequests)
TimeTimes == {0, 1000}

NextTime == NextOn(TimeRequests, TimeTimes, Registered, {NotFound}, MaxInFlight)

SpecTime == Init /\ [][NextTime]_vars

\* every answer of the registry, requests in flight together
KeysRequests ==
    Ids({Signed(S_product1, S_k1, S_n1), Signed(S_product1, S_k1, S_n2)}
          \cup UngatedRequests)
KeysTimes == {0, 1}

NextKeys == NextOn(KeysRequests, KeysTimes, ActiveValues, FaultAnswers, MaxInFlight)

SpecKeys == Init /\ [][NextKeys]_vars

\* the key cache around CACHE_TTL
CacheRequests ==
    Ids({Signed(S_product1, S_k1, S_n1), Signed(S_product1, S_k2, S_n1)}
          \cup UngatedRequests)
CacheTimes == {0, 1, CACHE_TTL, CACHE_TTL + 1}

NextCache == NextOn(CacheRequests, CacheTimes, Registered, {NotFound}, MaxInFlight)

SpecCache == Init /\ [][NextCache]_vars

\* one nonce under two keys, requests in flight together, the sweep around
\* NONCE_TTL
ReplayRequests ==
    Ids({Signed(S_product1, S_k1, S_n1), Signed(S_product1, S_k2, S_n1),
         Varied(Created0, <<>>, K1, Ed, N1)}
          \cup UngatedRequests)
ReplayTimes == {0, NONCE_TTL, NONCE_TTL + 1}

NextReplay == NextOn(ReplayRequests, ReplayTimes, Registered, {NotFound}, MaxInFlight)

SpecReplay == Init /\ [][NextReplay]_vars

\* the gate and the routes: requests with and without the two headers, on
\* gated and on other paths
GateRequests ==
    Ids({Signed(S_product1, S_k1, S_n1), Signed(S_Product1, S_k1, S_n1),
         Resigned(SignatureHeader(S_sig2, "sig64", "X", S_product1, TRUE)),
         Resigned(NoSignature)}
          \cup EnvelopeRequests \cup UngatedRequests \cup RouteRequests)
GateTimes == {0, 1}

NextGate == NextOn(GateRequests, GateTimes, Registered, {NotFound}, MaxInFlight)

SpecGate == Init /\ [][NextGate]_vars

\* one request at a time, under a fair event loop: the timers (the sweep,
\* the clock) keep running; the registry is not bound to answer, and the
\* fetch sets no timer of its own
LiveRequests ==
    Ids({Signed(S_product1, S_k1, S_n1), Signed(S_product1, S_k2, S_n1),
         Resigned(SignatureHeader(S_sig2, "sig64", "X", S_product1, TRUE)),
         Request(S_product1, NoSigInput, NoSignature)}
          \cup UngatedRequests)
LiveTimes == {0, 1, NONCE_TTL + 1}

NextLive == NextOn(LiveRequests, LiveTimes, Registered, {NotFound}, LiveInFlight)

SpecLive ==
    /\ Init
    /\ [][NextLive]_vars
    /\ WF_vars(Sweep)
    /\ WF_vars(Tick(LiveTimes))

\* key ids of every malformed kind beside two registered ones
KeyIdScenario ==
    Ids({Signed(S_product1, S_k1, S_n1), Signed(S_product1, S_k2, S_n1)}
          \cup KeyIdRequests)
KeyIdTimes == {0, 1}

NextKeyId == NextOn(KeyIdScenario, KeyIdTimes, Registered, {NotFound}, MaxInFlight)

SpecKeyId == Init /\ [][NextKeyId]_vars

\* one request for each rejection ahead of the replay guard, beside a
\* correctly signed one; the key active or not, or unknown to the registry
RejectRequests ==
    Ids({Signed(S_product1, S_k1, S_n1),
         Request(S_product1, Envelope(S_sig1, Created0, Expires0, K1, Ed, N1),
                 SignatureHeader(S_sig1, "sig64", "A", S_product1, TRUE)),
         Varied(Created0, Expires0, <<QAttr(S_keyId, S_badKey)>>, Ed, N1),
         Varied(<<NAttr(S_created, StartSec + CLOCK_SKEW + 1)>>, Expires0, K1, Ed, N1),
         Varied(Created0, <<NAttr(S_expires, StartSec)>>, K1, Ed, N1),
         Varied(Created0, Expires0, K1, Ed, <<>>)})
RejectTimes == {0, 1000}

NextReject ==
    NextOn(RejectRequests, RejectTimes, {Str(S_true), Str(S_false)}, {NotFound},
           MaxInFlight)

SpecReject == Init /\ [][NextReject]_vars

\* The sweep on its timer.  setInterval runs the sweep every SWEEP_PERIOD
\* milliseconds from the start; the clock is followed through the sampled
\* instants in order, and at an instant at which the timer is due the
\* callback runs before the clock moves on.

\* variant: no timer is set
SweepDue_never(t) == t < StartMs

SweepDue(t) == (t - StartMs) % SWEEP_PERIOD = 0

SweepPending ==
    /\ SweepDue(now)
    /\ \E e \in nonceCache : NonceExpired(e, now)

TimerSweep ==
    /\ SweepDue(now)
    /\ Sweep

TimerTick(Times) ==
    /\ ~SweepPending
    /\ \E d \in Times :
         /\ StartMs + d > now
         /\ \A c \in Times : StartMs + c > now => c >= d
         /\ now' = StartMs + d
    /\ UNCHANGED <<keyCache, nonceCache, inflight, last, lastFresh,
                   registryVars, frontendVars>>

SweepRequests ==
    Ids({Signed(S_product1, S_k1, S_n1), Signed(S_product1, S_k1, S_n2),
         Request(S_product1, NoSigInput, NoSignature)})
SweepTimes ==
    {0, 1, NONCE_TTL, NONCE_TTL + SWEEP_PERIOD, NONCE_TTL + SWEEP_PERIOD + 1}

NextSweep ==
    \/ \E id \in SweepRequests : Arrive(id, LiveInFlight) /\ UNCHANGED registryVars
    \/ \E e \in BagToSet(inflight) :
         \E resp \in {Answer(200, RegisteredKey(KeyIdOf(e.req), Str(S_true))),
                       NotFound} :
           FetchReturn(e, resp) /\ UNCHANGED registryVars
    \/ TimerSweep
    \/ TimerTick(SweepTimes)

SpecSweep ==
    /\ Init
    /\ [][NextSweep]_vars
    /\ WF_vars(TimerSweep)
    /\ WF_vars(TimerTick(SweepTimes))

\* the registry holding, for k1, a record whose algorithm field names
\* rsa-pss-sha256 beside the raw Ed25519 public key of the agent
MislabelledRecord ==
    Answer(200, KeyData("object", Str(S_k1), Str(S_rsa), Str(S_true),
                        [fmt |-> "raw32", pair |-> PairOf(S_k1)]))

AlgorithmRequests ==
    Ids({Signed(S_product1, S_k1, S_n1), Signed(S_product1, S_k1, S_n2),
         Varied(Created0, Expires0, K1, <<QAttr(S_alg, S_rsa)>>, N1),
         Request(S_product1, NoSigInput, NoSignature)})
AlgorithmTimes == {0, 1}

NextAlgorithm ==
    NextOn(AlgorithmRequests, AlgorithmTimes, Registered,
           {NotFound, MislabelledRecord}, MaxInFlight)

SpecAlgorithm == Init /\ [][NextAlgorithm]_vars

\* envelopes whose created is later than their expires, both within the
\* window the timing validation accepts
OrderRequests ==
    Ids(MisorderedRequests \cup
        {Varied(Created0, <<>>, K1, Ed, N1),
         Signed(S_product1, S_k1, S_n2),
         Request(S_product1, NoSigInput, NoSignature)})
OrderTimes == {0, 1000, 2000}

NextOrder == NextOn(OrderRequests, OrderTimes, Registered, {NotFound}, MaxInFlight)

SpecOrder == Init /\ [][NextOrder]_vars

\* the base string over several component lists
BaseRequests ==
    Ids(CoveringRequests
          \cup {Signed(S_product1, S_k1, S_n2),
                Request(S_product1, NoSigInput, NoSignature)})
BaseTimes == {0, 1}

NextBase == NextOn(BaseRequests, BaseTimes, Registered, {NotFound}, MaxInFlight)

SpecBase == Init /\ [][NextBase]_vars

\* The registry as a process of its own: it answers a fetch with the record
\* it holds at that moment, the answer reaches the proxy later, and in
\* between an operator may deactivate the key.
AnswersFor(e) ==
    BagCardinality([a \in {x \in BagToSet(answers) : x.e = e} |->
                      CopiesIn(a, answers)])

RegistryAnswers(e) ==
    /\ BagIn(e, inflight)
    /\ CopiesIn(e, inflight) > AnswersFor(e)
    /\ answers' = answers (+) SetToBag({[e |-> e,
                     resp |-> Answer(200, RegisteredKey(KeyIdOf(e.req), registry))]})
    /\ UNCHANGED <<now, keyCache, nonceCache, inflight, last, lastFresh,
                   registry, frontendVars>>

Deactivate ==
    /\ registry = Str(S_true)
    /\ registry' = Str(S_false)
    /\ UNCHANGED <<now, keyCache, nonceCache, inflight, last, lastFresh,
                   answers, frontendVars>>

\* the answer arrives: axios.get resolves
Deliver(a) ==
    /\ BagIn(a, answers)
    /\ FetchReturn(a.e, a.resp)
    /\ answers' = answers (-) SetToBag({a})
    /\ UNCHANGED registry

RotateRequests ==
    Ids({Signed(S_product1, S_k1, S_n1), Signed(S_product1, S_k1, S_n2),
         Request(S_product1, NoSigInput, NoSignature)})
RotateTimes == {0, 1}

NextRotate ==
    \/ \E id \in RotateRequests : Arrive(id, MaxInFlight) /\ UNCHANGED registryVars
    \/ \E e \in BagToSet(inflight) : RegistryAnswers(e)
    \/ Deactivate
    \/ \E a \in BagToSet(answers) : Deliver(a)
    \/ Tick(RotateTimes)

SpecRotate == Init /\ [][NextRotate]_vars

-----------------------------------------------------------------------------
(* CartProvider (src/merchant-frontend/src/context/CartContext.jsx).  An   *)
(* operation runs to its await in one step and resumes in another when the *)
(* cartAPI call settles; a pending call is [op, call].  What the backend   *)
(* returns is an input: a cart of up to MaxCartItems items, or a failure.  *)

MaxCartCalls == 2
MaxCartItems == 1

Cart(n) == [present |-> TRUE, items |-> n]
Carts == {Cart(n) : n \in 0..MaxCartItems}

SessionId == "s1"

Action(type, payload) == [type |-> type, payload |-> payload]

cartReducer(state, action) ==
    CASE action.type = "SET_LOADING" ->
           [state EXCEPT !.loading = action.payload]
      [] action.type = "SET_ERROR" ->
           [state EXCEPT !.error = action.payload, !.loading = FALSE]
      [] action.type = "SET_CART" ->
           [state EXCEPT !.cart = action.payload, !.loading = FALSE,
                         !.error = Null]
      [] action.type = "SET_SESSION_ID" ->
           [state EXCEPT !.sessionId = action.payload]
      [] action.type = "CLEAR_CART" ->
           [state EXCEPT !.cart = NoCart]
      [] OTHER -> state

\* the dispatches of one step, in order
RECURSIVE Dispatched(_, _)
Dispatched(state, actions) ==
    IF actions = <<>> THEN state
    ELSE Dispatched(cartReducer(state, Head(actions)), Tail(actions))

Pending(op, call) == [op |-> op, call |-> call]

\* the step runs the dispatches, takes the settled call from the pending
\* ones and adds the calls the operation awaits next
CartStep(actions, settled, awaited) ==
    /\ cartState' = Dispatched(cartState, actions)
    /\ cartOps' = [cartOps EXCEPT
                     !.started = TRUE,
                     !.pending = (@ (-) SetToBag(settled)) (+) SetToBag(awaited)]
    /\ UNCHANGED <<now, keyCache, nonceCache, inflight, last, lastFresh,
                   registryVars, page, searchFilters, pageCalls>>

\* loadCart up to its await
LoadCartCalls == <<Action("SET_LOADING", TRUE)>>

\* the effect of mounting: initializeCart, with or without a session id in
\* localStorage
initializeCart(stored) ==
    /\ ~cartOps.started
    /\ IF stored
       THEN CartStep(<<Action("SET_SESSION_ID", SessionId)>> \o LoadCartCalls,
                     {}, {Pending("initializeCart", "getCart")})
       ELSE CartStep(<<>>, {}, {Pending("initializeCart", "createCart")})

\* cartAPI.createCart settles
initializeCartResumes(ok) ==
    LET call == Pending("initializeCart", "createCart")
    IN  /\ BagIn(call, cartOps.pending)
        /\ IF ok
           THEN CartStep(<<Action("SET_SESSION_ID", SessionId)>> \o LoadCartCalls,
                         {call}, {Pending("initializeCart", "getCart")})
           ELSE CartStep(<<Action("SET_ERROR", "Failed to initialize cart")>>,
                         {call}, {})

\* cartAPI.getCart settles, in loadCart called by op
loadCartResumes(op, ok, payload) ==
    LET call == Pending(op, "getCart")
    IN  /\ BagIn(call, cartOps.pending)
        /\ IF ok
           THEN CartStep(<<Action("SET_CART", payload)>>, {call}, {})
           ELSE CartStep(<<Action("SET_ERROR", "Failed to load cart")>>,
                         {call}, {})

\* an operation of the context value up to its await
Begins(op, call) ==
    /\ cartState.sessionId # Null
    /\ BagCardinality(cartOps.pending) < MaxCartCalls
    /\ CartStep(<<Action("SET_LOADING", TRUE)>>, {}, {Pending(op, call)})

addToCart == Begins("addToCart", "addItemToCart")

AddToCartErrors ==
    {"Request timed out. Please try again.", "Product not found",
     "Server error. Please try again later.", "Failed to add item to cart"}

\* Promise.race settles: outcome "" is the response, else the message of
\* the catch block
addToCartResumes(outcome, payload) ==
    LET call == Pending("addToCart", "addItemToCart")
    IN  /\ BagIn(call, cartOps.pending)
        /\ IF outcome = ""
           THEN CartStep(<<Action("SET_CART", payload)>>, {call}, {})
           ELSE CartStep(<<Action("SET_ERROR", outcome)>>, {call}, {})

updateCartItem == Begins("updateCartItem", "updateCartItem")

updateCartItemResumes(ok, payload) ==
    LET call == Pending("updateCartItem", "updateCartItem")
    IN  /\ BagIn(call, cartOps.pending)
        /\ IF ok
           THEN CartStep(<<Action("SET_CART", payload)>>, {call}, {})
           ELSE CartStep(<<Action("SET_ERROR", "Failed to update cart item")>>,
                         {call}, {})

removeFromCart == Begins("removeFromCart", "removeItemFromCart")

\* cartAPI.removeItemFromCart settles; on success loadCart is awaited
removeFromCartResumes(ok) ==
    LET call == Pending("removeFromCart", "removeItemFromCart")
    IN  /\ BagIn(call, cartOps.pending)
        /\ IF ok
           THEN CartStep(LoadCartCalls, {call},
                         {Pending("removeFromCart", "getCart")})
           ELSE CartStep(<<Action("SET_ERROR", "Failed to remove item from cart")>>,
                         {call}, {})

clearCart == Begins("clearCart", "clearCart")

clearCartResumes(ok) ==
    LET call == Pending("clearCart", "clearCart")
    IN  /\ BagIn(call, cartOps.pending)
        /\ IF ok
           THEN CartStep(<<Action("CLEAR_CART", Null)>>, {call}, {})
           ELSE CartStep(<<Action("SET_ERROR", "Failed to clear cart")>>,
                         {call}, {})

NextCart ==
    \/ \E stored \in BOOLEAN : initializeCart(stored)
    \/ \E ok \in BOOLEAN : initializeCartResumes(ok)
    \/ \E op \in {"initializeCart", "removeFromCart"} :
         \E ok \in BOOLEAN : \E payload \in Carts :
           loadCartResumes(op, ok, payload)
    \/ addToCart
    \/ \E outcome \in {""} \cup AddToCartErrors : \E payload \in Carts :
         addToCartResumes(outcome, payload)
    \/ updateCartItem
    \/ \E ok \in BOOLEAN : \E payload \in Carts : updateCartItemResumes(ok, payload)
    \/ removeFromCart
    \/ \E ok \in BOOLEAN : removeFromCartResumes(ok)
    \/ clearCart
    \/ \E ok \in BOOLEAN : clearCartResumes(ok)

SpecCart == Init /\ [][NextCart]_vars

-----------------------------------------------------------------------------
(* ProductsPage (src/unnamed/part_001) with its SearchFilters form         *)
(* (src/merchant-frontend/src/App.jsx).  The form is in the tree only      *)
(* while the page shows neither "Loading products..." nor the error; when  *)
(* it leaves the tree its state is lost.  A callback given to setTimeout   *)
(* keeps the closure of the render that scheduled it: the handleFilter of  *)
(* that render with its currentFilters, and the category of that render.   *)
(* Of the filter form only the category is followed; the two price inputs  *)
(* are handled by the same code.  What the backend answers to a search is  *)
(* the part of a small catalogue that matches the filters.                 *)

MaxLoads == 3
MaxTimers == 2

Queries == {"q"}
Categories == {"Books"}

Catalogue ==
    {[id |-> 1, name |-> "q", category |-> "Books"],
     [id |-> 2, name |-> "q", category |-> "Home"],
     [id |-> 3, name |-> "z", category |-> "Books"]}

\* response.data of productsAPI.searchProducts(filters): a key whose value
\* is '' or undefined is not sent
SearchResponse(filters) ==
    LET found == {p \in Catalogue :
                    /\ filters.query = "" \/ p.name = filters.query
                    /\ filters.category = "" \/ p.category = filters.category}
    IN  [products |-> found, total |-> Cardinality(found)]

\* the page renders the SearchFilters form
Rendered(pg) == ~pg.loading /\ pg.error = Null

\* the state of the form after a render of the page
FormAfter(pg, form) == IF Rendered(pg) THEN form ELSE SearchFiltersInitial

PageStep(pg, form, calls) ==
    /\ page' = pg
    /\ searchFilters' = FormAfter(pg, form)
    /\ pageCalls' = calls
    /\ UNCHANGED <<now, keyCache, nonceCache, inflight, last, lastFresh,
                   registryVars, cartState, cartOps>>

\* loadProducts(filters) up to its await, on the page state pg
Loading(pg) == [pg EXCEPT !.loading = TRUE, !.error = Null]

Issue(calls, filters) ==
    [calls EXCEPT !.started = TRUE,
                  !.issued = @ + 1,
                  !.latest = filters,
                  !.loads = @ \cup {[seq |-> calls.issued + 1, filters |-> filters]}]

\* useEffect(() => { loadProducts(); }, [])
mount ==
    /\ ~pageCalls.started
    /\ PageStep(Loading(page), searchFilters, Issue(pageCalls, NoFilters))

\* onChange of the search input
setSearchQuery(q) ==
    /\ pageCalls.started
    /\ Rendered(page)
    /\ searchFilters.searchQuery # q
    /\ PageStep(page, [searchFilters EXCEPT !.searchQuery = q], pageCalls)

\* the form is submitted: onSearch(searchQuery)
handleSearch ==
    LET filters == [page.currentFilters EXCEPT !.query = searchFilters.searchQuery]
    IN  /\ pageCalls.started
        /\ Rendered(page)
        /\ pageCalls.issued < MaxLoads
        /\ PageStep(Loading([page EXCEPT !.currentFilters = filters]),
                    searchFilters, Issue(pageCalls, filters))

\* onChange of the category select: setCategory(c) and
\* setTimeout(handleFilterChange, 0)
setCategory(c) ==
    /\ pageCalls.started
    /\ Rendered(page)
    /\ searchFilters.category # c
    /\ BagCardinality(pageCalls.timers) < MaxTimers
    /\ PageStep(page, [searchFilters EXCEPT !.category = c],
                [pageCalls EXCEPT !.timers = @ (+) SetToBag({
                     [currentFilters |-> page.currentFilters,
                      category |-> searchFilters.category]})])

\* the timer fires: handleFilterChange calls onFilter, the handleFilter of
\* the render it was created in
handleFilter(timer) ==
    LET filters == [timer.currentFilters EXCEPT !.category = timer.category]
    IN  /\ BagIn(timer, pageCalls.timers)
        /\ pageCalls.issued < MaxLoads
        /\ PageStep(Loading([page EXCEPT !.currentFilters = filters]),
                    searchFilters,
                    Issue([pageCalls EXCEPT !.timers = @ (-) SetToBag({timer})],
                          filters))

\* Clear Filters: onFilter({})
clearFilters ==
    /\ pageCalls.started
    /\ Rendered(page)
    /\ pageCalls.issued < MaxLoads
    /\ PageStep(Loading(page), [searchFilters EXCEPT !.category = ""],
                Issue(pageCalls, page.currentFilters))

\* the Retry button of the error view: loadProducts()
retry ==
    /\ pageCalls.started
    /\ ~page.loading
    /\ page.error # Null
    /\ pageCalls.issued < MaxLoads
    /\ PageStep(Loading(page), searchFilters, Issue(pageCalls, NoFilters))

\* productsAPI.searchProducts settles: loadProducts after its await
loadProducts(load, ok) ==
    LET settled == [pageCalls EXCEPT !.loads = @ \ {load}]
    IN  /\ load \in pageCalls.loads
        /\ IF ok
           THEN PageStep([page EXCEPT
                            !.products = SearchResponse(load.filters).products,
                            !.total = SearchResponse(load.filters).total,
                            !.loading = FALSE],
                         searchFilters, settled)
           ELSE PageStep([page EXCEPT
                            !.error = "Failed to load products. Please try again.",
                            !.loading = FALSE],
                         searchFilters, settled)

NextPage ==
    \/ mount
    \/ \E q \in Queries \cup {""} : setSearchQuery(q)
    \/ handleSearch
    \/ \E c \in Categories \cup {""} : setCategory(c)
    \/ \E timer \in BagToSet(pageCalls.timers) : handleFilter(timer)
    \/ clearFilters
    \/ retry
    \/ \E load \in pageCalls.loads : \E ok \in BOOLEAN : loadProducts(load, ok)

SpecPage == Init /\ [][NextPage]_vars

\* values that are logged
LogRequests == Ids({Signed(S_product1, S_k1, S_n1)} \cup LoggedRequests)
LogTimes == {0, 1}

NextLog == NextOn(LogRequests, LogTimes, Registered, {NotFound}, MaxInFlight)

SpecLog == Init /\ [][NextLog]_vars

\* the attributes of the envelope: keyId, alg and nonce absent, empty,
\* written as integers
AttributeRequests ==
    Ids({Signed(S_product1, S_k1, S_n1)} \cup NonceRequests \cup AlgRequests
          \cup KeyIdRequests)
AttributeTimes == {0, 1}

NextAttribute ==
    NextOn(AttributeRequests, AttributeTimes, Registered, {NotFound}, MaxInFlight)

SpecAttribute == Init /\ [][NextAttribute]_vars

-----------------------------------------------------------------------------
(* The error page.  sendErrorResponse(res, statusCode, title, message,     *)
(* details) sends the status and an HTML page with the escaped title,      *)
(* message and details.  A text is held as its fixed wording and the       *)
(* values interpolated into it; the pictograph that opens a title is left  *)
(* out.                                                                    *)

EscapeChar(c) ==
    CASE c = "&" -> <<"&", "a", "m", "p", ";">>
      [] c = "<" -> <<"&", "l", "t", ";">>
      [] c = ">" -> <<"&", "g", "t", ";">>
      [] c = "\"" -> <<"&", "q", "u", "o", "t", ";">>
      [] c = "'" -> <<"&", "#", "0", "3", "9", ";">>
      [] OTHER -> <<c>>

RECURSIVE escapeHtml(_)
escapeHtml(unsafe) ==
    IF unsafe = <<>> THEN <<>>
    ELSE EscapeChar(Head(unsafe)) \o escapeHtml(Tail(unsafe))

\* `${x}` in a template literal
ToText(x) ==
    CASE x.t = "string" -> x.v
      [] x.t = "number" -> Digits(x.v[1])
      [] OTHER -> S_undefined

Text(wording, values) ==
    [wording |-> wording, values |-> [i \in DOMAIN values |-> escapeHtml(values[i])]]

NoDetails == Text("", <<>>)

\* the title and the message of each error response
ErrorPages ==
    [SIGNATURE_REQUIRED |->
       [title |-> "Signature Required",
        message |-> "Access to /products/ requires verification from trusted payment directory agents."],
     INVALID_ENVELOPE |->
       [title |-> "Invalid RFC 9421 Signature Input",
        message |-> "Could not parse signature-input header. Expected RFC 9421 format."],
     INVALID_KEY_ID |->
       [title |-> "Invalid Key ID Format",
        message |-> "The key ID contains invalid characters or is too long."],
     BOT_TRAFFIC |->
       [title |-> "Bot Traffic Detected",
        message |-> "This site requires verification from trusted payment directory agents."],
     KEY_NOT_FOUND |->
       [title |-> "Key Not Found",
        message |-> "The specified key ID was not found in the registry."],
     KEY_INACTIVE |->
       [title |-> "Inactive Key",
        message |-> "The specified key is not currently active."],
     TIMESTAMP_FUTURE |->
       [title |-> "Invalid Timestamp",
        message |-> "Signature created time is in the future."],
     SIGNATURE_EXPIRED |->
       [title |-> "Signature Expired",
        message |-> "The signature has expired and is no longer valid."],
     MISSING_NONCE |->
       [title |-> "Missing Nonce",
        message |-> "Signature must include a nonce to prevent replay attacks."],
     REPLAY |->
       [title |-> "Replay Attack Detected",
        message |-> "This signature has already been used. Each request must have a unique nonce."],
     INVALID_SIGNATURE_FORMAT |->
       [title |-> "Invalid Signature Format",
        message |-> "The signature format is invalid."],
     UNSUPPORTED_ALGORITHM |->
       [title |-> "Unsupported Algorithm",
        message |-> "The signature algorithm '${algorithm}' is not supported."],
     SIGNATURE_BAD |->
       [title |-> "Signature Verification Failed",
        message |-> "The signature could not be verified against the provided key."],
     SERVER_ERROR |->
       [title |-> "Server Error",
        message |-> "An internal error occurred during signature verification."]]

\* the algorithm a message names
MessageValues(kind, signatureData) ==
    IF kind = "UNSUPPORTED_ALGORITHM"
    THEN <<ToLowerCase(signatureData.algorithm.v)>>
    ELSE <<>>

\* the details argument of each error response
DetailsOf(kind, signatureData, keyInfo) ==
    CASE kind \in {"SIGNATURE_REQUIRED", "BOT_TRAFFIC"} ->
           Text("Missing required signature headers: signature-input, signature", <<>>)
      [] kind = "INVALID_ENVELOPE" ->
           Text("Failed to parse RFC 9421 signature input", <<>>)
      [] kind = "KEY_NOT_FOUND" ->
           Text("Key ID: ${signatureKeyId}", <<ToText(signatureData.keyId)>>)
      [] kind = "KEY_INACTIVE" ->
           Text("Key ID: ${keyInfo.key_id}", <<ToText(keyInfo.key_id)>>)
      [] kind = "SIGNATURE_EXPIRED" ->
           Text("Expired at: ${new Date(signatureData.expires * 1000).toISOString()}",
                <<ToText(signatureData.expires)>>)
      [] kind = "REPLAY" ->
           Text("Nonce was previously used at ${new Date(previousUse).toISOString()}", <<>>)
      [] kind = "INVALID_SIGNATURE_FORMAT" ->
           Text("Expected RFC 9421 signature format: sig2=:base64:", <<>>)
      [] kind = "UNSUPPORTED_ALGORITHM" ->
           Text("Supported algorithms: rsa-pss-sha256, ed25519", <<>>)
      [] kind = "SIGNATURE_BAD" ->
           Text("Key ID: ${keyInfo.key_id}, Algorithm: ${algorithm}",
                <<ToText(keyInfo.key_id), ToLowerCase(signatureData.algorithm.v)>>)
      [] OTHER -> NoDetails

sendErrorResponse(statusCode, title, message, details) ==
    [status |-> statusCode, title |-> title, message |-> message,
     details |-> details]

\* what the client receives for a request the gateway rejected
ResponseOf(ev) ==
    sendErrorResponse(StatusOf(ev.kind), ErrorPages[ev.kind].title,
                      Text(ErrorPages[ev.kind].message,
                           MessageValues(ev.kind, SignatureDataOf[ev.req])),
                      DetailsOf(ev.kind, SignatureDataOf[ev.req], ev.key))

-----------------------------------------------------------------------------
(* The log.  What console.log writes of the request while the gate and     *)
(* verifySignature handle it: each value with the line that logs it.  The  *)
(* method is left out: the HTTP parser admits only the known methods.      *)

\* the characters of [\x00-\x1F\x7F-\x9F] and of \s that a header value of
\* the sampled requests can hold
ControlChars == {"\t", "\n", "\r"}
LineBreakChars == {"\r", "\n", "\t"}
SpaceChars == {" ", "\t", "\n", "\r"}

RemoveChars(cs, set) == SelectSeq(cs, LAMBDA c : c \notin set)
ReplaceChars(cs, set, by) == [i \in DOMAIN cs |-> IF cs[i] \in set THEN by ELSE cs[i]]

\* .replace(/\s+/g, ' ')
CollapseSpaces(cs) ==
    LET marked == [i \in DOMAIN cs |->
                     IF cs[i] \notin SpaceChars THEN cs[i]
                     ELSE IF i > 1 /\ cs[i - 1] \in SpaceChars THEN ""
                     ELSE " "]
    IN  SelectSeq(marked, LAMBDA c : c # "")

Trim(cs) ==
    LET inner == {i \in DOMAIN cs : cs[i] \notin SpaceChars}
    IN  IF inner = {} THEN <<>>
        ELSE SubSeq(cs, CHOOSE i \in inner : \A j \in inner : i <= j,
                        CHOOSE i \in inner : \A j \in inner : i >= j)

\* String.prototype.substring(0, n)
Substring(cs, n) == SubSeq(cs, 1, IF Len(cs) < n THEN Len(cs) ELSE n)

sanitizeLogOutput(input) ==
    IF input.t = "undefined" THEN S_null
    ELSE Substring(
           Trim(CollapseSpaces(
             ReplaceChars(RemoveChars(ToText(input), ControlChars),
                          LineBreakChars, " "))),
           LOG_LIMIT)

\* Object.keys(req.headers)
HeaderNames(req) ==
    <<S_host>>
      \o (IF req.contentType = Undef THEN <<>> ELSE <<S_contentType>>)
      \o (IF req.sigInput.present THEN <<S_signatureInput>> ELSE <<>>)
      \o (IF req.signature.present THEN <<S_signature>> ELSE <<>>)
      \o [i \in DOMAIN req.otherHeaders |-> req.otherHeaders[i].name]

Logged(line, value) == [line |-> line, value |-> value]

\* the gate middleware
GateLog(req) ==
    {Logged(640, sanitizeLogOutput(Str(req.url))),
     Logged(640, sanitizeLogOutput(Str(req.host))),
     Logged(641, JoinWith(HeaderNames(req), S_commaSpace))}

\* verifySignature: the outcomes that lie behind each log statement
PastKeyIdCheck ==
    DOMAIN Outcomes \ {"PASS", "SIGNATURE_REQUIRED", "INVALID_ENVELOPE",
                       "INVALID_KEY_ID"}
PastDispatch == {"SIGNATURE_BAD", "FORWARD"}

VerifyLog(req, signatureData, kind, keyInfo) ==
    LET pastNonce ==
          \/ kind \in {"INVALID_SIGNATURE_FORMAT", "UNSUPPORTED_ALGORITHM"}
                        \cup PastDispatch
          \/ kind = "SERVER_ERROR" /\ keyInfo.shape = "object"
    IN  {Logged(399, sanitizeLogOutput(Str(req.url)))}
          \cup (IF kind \in PastKeyIdCheck
                THEN {Logged(434, sanitizeLogOutput(signatureData.keyId)),
                      Logged(435, sanitizeLogOutput(Str(RenderSigInput(req.sigInput))))}
                ELSE {})
          \cup (IF kind = "REPLAY"
                THEN {Logged(497, sanitizeLogOutput(signatureData.nonce))}
                ELSE {})
          \cup (IF pastNonce
                THEN {Logged(507, sanitizeLogOutput(signatureData.nonce)),
                      Logged(525, sanitizeLogOutput(signatureData.keyId)),
                      Logged(526, sanitizeLogOutput(signatureData.algorithm))}
                ELSE {})
          \cup (IF kind = "UNSUPPORTED_ALGORITHM"
                THEN {Logged(567, ToLowerCase(signatureData.algorithm.v))}
                ELSE {})
          \cup (IF kind = "FORWARD"
                THEN {Logged(589, sanitizeLogOutput(signatureData.algorithm)),
                      Logged(590, sanitizeLogOutput(signatureData.tag)),
                      Logged(591, sanitizeLogOutput(signatureData.nonce))}
                ELSE {})

\* everything logged of the request of a completed event
LogOf(ev) ==
    (IF TestProxyMatches(RequestList[ev.req]) THEN {}
     ELSE GateLog(RequestList[ev.req]))
      \cup (IF ev.kind \in {"PASS", "SIGNATURE_REQUIRED"} THEN {}
            ELSE VerifyLog(RequestList[ev.req], SignatureDataOf[ev.req],
                           ev.kind, ev.key))

-----------------------------------------------------------------------------
(* Vocabulary of the properties.  They read the completed request from     *)
(* `last`; a step completes a request when it changes `last`.              *)

Completes == last' # last

EvRequest(ev) == RequestList[ev.req]
EvData(ev) == SignatureDataOf[ev.req]
EvNowSec(ev) == ev.t \div 1000

Gated(ev) == ev.req # 0 /\ isProductsApiRoute(EvRequest(ev))

\* the attribute is written as an unsigned integer
IsInt(x) == x.t = "number"

\* the key record is one the registry holds (200 with a JSON object), or the
\* copy of one in the cache
KeyFound(ev) == ev.key.shape = "object"
KeyActive(ev) == KeyFound(ev) /\ ev.key.is_active = Str(S_true)

\* created > now + 60, expires < now, as section 4.6 step 5 states them
SpecCreatedInFuture(ev) ==
    IsInt(EvData(ev).created) /\ EvData(ev).created.v[1] > EvNowSec(ev) + 60
SpecExpired(ev) ==
    IsInt(EvData(ev).expires) /\ EvData(ev).expires.v[1] < EvNowSec(ev)

\* the companion header has the form sig2=:BASE64:
SignatureWellFormed(ev) ==
    /\ EvRequest(ev).signature.present
    /\ EvRequest(ev).signature.label = S_sig2
    /\ EvRequest(ev).signature.sig.fmt # "empty"

AlgSupported(ev) ==
    /\ EvData(ev).algorithm.t = "string"
    /\ ToLowerCase(EvData(ev).algorithm.v) \in {S_ed25519, S_rsa}

\* the signature is the one the holder of the key record's key pair makes
\* over this request with the algorithm the envelope names
Genuine(ev) ==
    LET sig == EvRequest(ev).signature.sig
        alg == ToLowerCase(EvData(ev).algorithm.v)
    IN  /\ AlgSupported(ev)
        /\ sig.own
        /\ sig.authority = EvRequest(ev).host
        /\ sig.path = EvRequest(ev).url
        /\ sig.pair = ev.key.public_key.pair
        /\ \/ alg = S_ed25519 /\ sig.fmt = "sig64" /\ ev.key.public_key.fmt = "raw32"
           \/ alg = S_rsa /\ sig.fmt = "pss" /\ ev.key.public_key.fmt = "pem"

\* the request got as far as the timing validation
ReachedTiming(ev) ==
    /\ Gated(ev)
    /\ BeforeLookupOf[ev.req] = ""
    /\ KeyActive(ev)

\* the request got as far as the replay guard
ReachedGuard(ev) ==
    /\ ReachedTiming(ev)
    /\ ~CreatedInFuture(EvData(ev).created, EvNowSec(ev))
    /\ ~Expired(EvData(ev).expires, EvNowSec(ev))
    /\ Truthy(EvData(ev).nonce)

-----------------------------------------------------------------------------
(* C1: no admission without verification.  A gated request for which next()*)
(* was called parsed, had a valid keyId, used a key record that was found  *)
(* and active, passed the temporal check (not created > now + 60, not      *)
(* expires < now), found its nonce fresh, had a well-formed signature      *)
(* header and carried a genuine signature.  Stated on SpecTime.            *)
NoAdmissionWithoutVerification ==
    (Gated(last) /\ last.next = 1) =>
        /\ EvData(last).ok
        /\ validateKeyId(EvData(last).keyId)
        /\ KeyActive(last)
        /\ ~SpecCreatedInFuture(last)
        /\ ~SpecExpired(last)
        /\ last.fresh
        /\ SignatureWellFormed(last)
        /\ Genuine(last)

-----------------------------------------------------------------------------
\* the latest instant before this step at which nonce n was recorded fresh
FreshBefore(n) == {e.timestamp : e \in {f \in lastFresh : f.nonce = n}}

(* C2: at most once per nonce.  Of the gated requests with nonce N that    *)
(* reach the replay guard, with their registry fetches interleaved in any  *)
(* order, the first one observes Fresh and records N; each one that        *)
(* reaches the guard within NONCE_TTL of a Fresh observation of N observes *)
(* Replay, is answered 403, is not forwarded and leaves the table as it    *)
(* is; no request passes the guard without recording its nonce.  Stated on *)
(* SpecReplay.                                                             *)
AtMostOncePerNonce ==
    [][(Completes /\ ReachedGuard(last')) =>
         LET n == EvData(last').nonce
         IN  /\ FreshBefore(n) = {} => last'.fresh
             /\ (\E t \in FreshBefore(n) : last'.t - t <= NONCE_TTL) =>
                    /\ ~last'.fresh
                    /\ last'.kind = "REPLAY"
                    /\ StatusOf(last'.kind) = 403
                    /\ last'.next = 0
                    /\ nonceCache' = nonceCache
             /\ last'.fresh => NonceGet(nonceCache', n) = last'.t
             /\ ~last'.fresh => last'.kind = "REPLAY"]_vars

\* a request is answered Replay exactly NONCE_TTL after the nonce was
\* recorded, its registry fetch having been in flight
ReplayAtNonceTTL ==
    /\ last.kind = "REPLAY"
    /\ ~last.hit
    /\ \E t \in FreshBefore(EvData(last).nonce) : last.t - t = NONCE_TTL

-----------------------------------------------------------------------------
\* the preconditions of the happy path, for a request completing against
\* the nonce table `nonces`
HappyPre(ev, nonces) ==
    /\ Gated(ev)
    /\ hasSignatureHeaders(EvRequest(ev))
    /\ EvData(ev).ok
    /\ validateKeyId(EvData(ev).keyId)
    /\ KeyActive(ev)
    /\ ~SpecCreatedInFuture(ev)
    /\ ~SpecExpired(ev)
    /\ EvData(ev).nonce.t = "string"
    /\ EvData(ev).nonce.v # <<>>
    /\ ~NonceHas(nonces, EvData(ev).nonce)
    /\ SignatureWellFormed(ev)
    /\ Genuine(ev)

(* C3: happy path.  A gated request that carries both headers, parses, has *)
(* a valid keyId, whose key record is found with is_active == "true",      *)
(* whose created/expires pass the temporal check, whose nonce is not in    *)
(* the table, whose signature header has the form sig2=:BASE64:, whose     *)
(* algorithm is ed25519 or rsa-pss-sha256 and whose signature verifies, is *)
(* forwarded (next() called once, no error response) and its nonce is in   *)
(* the nonce table afterwards.                                             *)
HappyPath ==
    [][(Completes /\ HappyPre(last', nonceCache)) =>
         /\ last'.kind = "FORWARD"
         /\ last'.next = 1
         /\ NonceHas(nonceCache', EvData(last').nonce)]_vars

\* an RSA-signed request was forwarded and its nonce is recorded
ForwardedRSA ==
    /\ last.kind = "FORWARD"
    /\ Genuine(last)
    /\ ToLowerCase(EvData(last).algorithm.v) = S_rsa
    /\ NonceHas(nonceCache, EvData(last).nonce)

-----------------------------------------------------------------------------
\* the envelope is invalid in the sense of the parser's failure modes: a
\* malformed signature-input, a companion header that is malformed or has
\* another label than sig2, or no alg
InvalidEnvelope(ev) ==
    \/ ~EvData(ev).ok
    \/ ~SignatureWellFormed(ev)
    \/ EvData(ev).algorithm.t = "undefined"

(* C4: a nonce is never consumed by a request that cannot pass basic       *)
(* envelope checks.  For every gated request whose envelope is invalid     *)
(* (malformed signature-input, a companion signature header that is        *)
(* malformed or carries a different label than sig2=:...:, or a missing    *)
(* mandatory alg), the nonce table is the same after the request as before *)
(* it.                                                                     *)
InvalidEnvelopeKeepsNonce ==
    [][(Completes /\ Gated(last') /\ InvalidEnvelope(last')) =>
         nonceCache' = nonceCache]_vars

-----------------------------------------------------------------------------
\* the registry fetch of the request failed with a transport error, or its
\* answer was 200 with a body that is not a JSON key record
FetchError(ev) ==
    \/ ev.status = 0
    \/ ev.status = 200 /\ ev.key.shape \in {"string", "empty"}

(* C5: when the registry fetch for a gated request fails with a transport  *)
(* error or a malformed body (FetchError), the gateway answers with status *)
(* 500, distinct from the 403 it gives when the registry answers 404.      *)
(* Stated on SpecKeys.                                                     *)
FetchErrorAnswered500 ==
    /\ (Gated(last) /\ FetchError(last)) => StatusOf(last.kind) = 500
    /\ (Gated(last) /\ last.status = 404) => StatusOf(last.kind) = 403

-----------------------------------------------------------------------------
\* the registry answered, and not with a 2xx status
NegativeAnswer(ev) == ev.status >= 100 /\ ev.status \notin 200..299

-----------------------------------------------------------------------------
\* the requests this step suspended in the registry fetch
Suspended == {e \in BagToSet(inflight') : CopiesIn(e, inflight') > CopiesIn(e, inflight)}

(* C7: cache bounded staleness.  getKeyById returns a cached record for    *)
(* keyId only when now - inserted_at < CACHE_TTL: a request answered from  *)
(* the cache at time u used the entry the cache held for its keyId,        *)
(* inserted at a time t with t <= u < t + CACHE_TTL; a call that finds an  *)
(* entry at or after t + CACHE_TTL evicts it and performs a new registry   *)
(* fetch, as does a call that finds no entry.  Stated on SpecCache.        *)
CacheBoundedStaleness ==
    [][/\ (Completes /\ last'.hit) =>
            /\ 0 <= last'.age
            /\ last'.age < CACHE_TTL
            /\ \E e \in keyCache :
                 /\ e.ck = CacheKey(KeyIdOf(last'.req))
                 /\ e.key = last'.key
                 /\ last'.t - e.timestamp = last'.age
            /\ keyCache' = keyCache
       /\ \A s \in Suspended :
            LET ck == CacheKey(KeyIdOf(s.req))
            IN  /\ ~CacheHas(keyCache', ck)
                /\ IF CacheHas(keyCache, ck)
                   THEN /\ s.age = now - CacheGet(keyCache, ck).timestamp
                        /\ s.age >= CACHE_TTL
                   ELSE s.age = -1]_vars

\* at one instant a request is answered from an entry of age CACHE_TTL - 1
\* while another, having found an entry of age CACHE_TTL, is fetching
HitBesideEviction ==
    /\ last.hit
    /\ last.age = CACHE_TTL - 1
    /\ \E s \in BagToSet(inflight) : s.age = CACHE_TTL

-----------------------------------------------------------------------------
(* C8: expiry.  Every gated request whose envelope carries an expires      *)
(* value with expires < now (unix seconds at check time), for every        *)
(* unsigned integer value of expires including 0, is not forwarded, and is *)
(* rejected with 403 SIGNATURE_EXPIRED when it reaches the expiry check; a *)
(* request with expires == now is not rejected on this ground.  Stated on  *)
(* SpecTime.                                                               *)
ExpiredIsRejected ==
    /\ (Gated(last) /\ BeforeLookupOf[last.req] = "" /\ SpecExpired(last)) =>
          /\ last.next = 0
          /\ (ReachedTiming(last)
                /\ ~CreatedInFuture(EvData(last).created, EvNowSec(last))) =>
               /\ last.kind = "SIGNATURE_EXPIRED"
               /\ StatusOf(last.kind) = 403
    /\ (Gated(last) /\ last.kind = "SIGNATURE_EXPIRED") =>
          /\ IsInt(EvData(last).expires)
          /\ EvData(last).expires.v[1] # EvNowSec(last)

-----------------------------------------------------------------------------
(* C9: clock-skew allowance.  A gated request is rejected with 403         *)
(* TIMESTAMP_FUTURE only if created is present and created > now + 60, and *)
(* every request that reaches the timing validation with such a created is *)
(* rejected so; created == now + 60 and an absent created are not rejected *)
(* on this ground.  Stated on SpecTime.                                    *)
ClockSkewAllowance ==
    Gated(last) =>
      /\ last.kind = "TIMESTAMP_FUTURE" =>
           /\ SpecCreatedInFuture(last)
           /\ StatusOf(last.kind) = 403
           /\ last.next = 0
      /\ (ReachedTiming(last) /\ SpecCreatedInFuture(last)) =>
           last.kind = "TIMESTAMP_FUTURE"

\* a request created one second beyond the allowance was rejected
RejectedJustBeyondSkew ==
    /\ last.kind = "TIMESTAMP_FUTURE"
    /\ EvData(last).created = Num(EvNowSec(last) + CLOCK_SKEW + 1)

-----------------------------------------------------------------------------
(* C10: a gated request is admitted only if the key record used for it has *)
(* is_active equal to the literal string "true"; a record with any other   *)
(* value ("false", boolean true, absent, other strings) yields 403 and no  *)
(* forwarding, and leaves the nonce table unchanged.  Stated on SpecKeys.  *)
OnlyLiteralTrueIsActive ==
    [][(Completes /\ Gated(last')) =>
         /\ last'.next = 1 => last'.key.is_active = Str(S_true)
         /\ (~Falsy(last'.key) /\ last'.key.is_active # Str(S_true)) =>
              /\ last'.kind = "KEY_INACTIVE"
              /\ StatusOf(last'.kind) = 403
              /\ last'.next = 0
              /\ nonceCache' = nonceCache]_vars

\* a request whose key record has the boolean true was rejected
RejectedBooleanTrue ==
    /\ last.kind = "KEY_INACTIVE"
    /\ last.key.is_active = Bool(TRUE)

-----------------------------------------------------------------------------
(* C11: a request on a gated path (lowercased URL starts with /product/,   *)
(* so /Product/1 is gated too) that lacks the signature-input header or    *)
(* the signature header is answered 403 Signature Required without any     *)
(* registry fetch, without changing the key cache or the nonce table, and  *)
(* without being forwarded.  Stated on SpecGate.                           *)
MissingHeaderIsSignatureRequired ==
    [][\A id \in GateRequests :
         (/\ StartsWith(ToLowerCase(RequestList[id].url), S_productPrefix)
          /\ \/ ~RequestList[id].sigInput.present
             \/ ~RequestList[id].signature.present
          /\ Arrive(id, MaxInFlight)) =>
            /\ last'.req = id
            /\ last'.kind = "SIGNATURE_REQUIRED"
            /\ StatusOf(last'.kind) = 403
            /\ last'.next = 0
            /\ last'.status = -1
            /\ inflight' = inflight
            /\ keyCache' = keyCache
            /\ nonceCache' = nonceCache]_vars

\* /Product/1 without headers was answered Signature Required
SignatureRequiredOnUpperCasePath ==
    /\ last.kind = "SIGNATURE_REQUIRED"
    /\ EvRequest(last).url = S_Product1
    /\ ~EvRequest(last).sigInput.present

-----------------------------------------------------------------------------
\* the request arriving in this step is on a path the gate does not guard
ArrivesUngated(id) ==
    /\ ~StartsWith(ToLowerCase(RequestList[id].url), S_productPrefix)
    /\ Arrive(id, MaxInFlight)

\* no signature check was made and nothing the gateway keeps has changed
PassedUnchecked(id) ==
    /\ last'.req = id
    /\ last'.kind = "PASS"
    /\ last'.next = 1
    /\ last'.status = -1
    /\ inflight' = inflight
    /\ keyCache' = keyCache
    /\ nonceCache' = nonceCache

-----------------------------------------------------------------------------
\* the routes the gateway's route list marks "requires signature"
SignedRoutes == {S_cartAdd, S_orders}

(* C13: the routes POST /cart/add and GET /orders require a signature: a   *)
(* request to one of them that carries no valid signature is not           *)
(* forwarded.  Stated on SpecGate.                                         *)
SignedRoutesNeedSignature ==
    (/\ last.req # 0
     /\ PathOf(EvRequest(last).url) \in SignedRoutes
     /\ \/ ~EvRequest(last).sigInput.present
        \/ ~EvRequest(last).signature.present)
        => /\ last.next = 0
           /\ last.then.sent = NoSend

(* C14: every admitted request reaches its upstream unmodified: the same   *)
(* method, path, query, body and headers, the Host header and the two      *)
(* signature headers included.  Stated on SpecGate.                        *)
ForwardedUnmodified ==
    (last.req # 0 /\ last.then.sent # NoSend) =>
        /\ last.then.sent.method = EvRequest(last).method
        /\ last.then.sent.url = EvRequest(last).url
        /\ last.then.sent.body = EvRequest(last).body
        /\ last.then.sent.contentType = EvRequest(last).contentType
        /\ last.then.sent.sigInput = EvRequest(last).sigInput
        /\ last.then.sent.signature = EvRequest(last).signature
        /\ last.then.sent.host = EvRequest(last).host

-----------------------------------------------------------------------------
\* an otherwise valid envelope naming an algorithm that is neither ed25519
\* nor rsa-pss-sha256, from a request that passes every check before the
\* algorithm dispatch against the nonce table `nonces`
UnsupportedPre(ev, nonces) ==
    /\ ReachedGuard(ev)
    /\ EvData(ev).nonce.t = "string"
    /\ ~NonceHas(nonces, EvData(ev).nonce)
    /\ SignatureWellFormed(ev)
    /\ EvData(ev).algorithm.t = "string"
    /\ ~AlgSupported(ev)

(* C15: unsupported algorithm.  A gated request with an otherwise valid    *)
(* envelope whose alg is not ed25519 or rsa-pss-sha256 (case-              *)
(* insensitively) is answered 400 UNSUPPORTED_ALGORITHM, is not forwarded, *)
(* and leaves the nonce table unchanged.  Stated on Spec.                  *)
UnsupportedAlgorithmKeepsNonce ==
    [][(Completes /\ UnsupportedPre(last', nonceCache)) =>
         /\ last'.kind = "UNSUPPORTED_ALGORITHM"
         /\ StatusOf(last'.kind) = 400
         /\ last'.next = 0
         /\ nonceCache' = nonceCache]_vars

-----------------------------------------------------------------------------
\* the attribute is absent from the envelope or written as a bare integer
NotQuoted(x) == x.t \in {"undefined", "number"}

\* a gated request with both headers and a signature-input of the right
\* form, in which keyId, alg or nonce is missing or a bare integer
LacksMandatory(ev) ==
    /\ Gated(ev)
    /\ hasSignatureHeaders(EvRequest(ev))
    /\ EvData(ev).ok
    /\ \/ NotQuoted(EvData(ev).keyId)
       \/ NotQuoted(EvData(ev).algorithm)
       \/ NotQuoted(EvData(ev).nonce)

(* C16: keyId, alg and nonce are mandatory.  A gated request whose         *)
(* signature-input omits any one of them, or gives it as a bare integer    *)
(* instead of a quoted string, is rejected with status 403, never with 500 *)
(* and never forwarded.  Stated on SpecAttribute.                          *)
MandatoryAttributes ==
    LacksMandatory(last) =>
        /\ StatusOf(last.kind) = 403
        /\ last.next = 0

-----------------------------------------------------------------------------
\* the same request is answered twice in a row: first while the registry
\* holds no record of its key, then while it holds one and a later check
\* rejects the request
UnknownThenKnown ==
    /\ Completes
    /\ last.req # 0
    /\ last'.req = last.req
    /\ last.kind = "KEY_NOT_FOUND"
    /\ KeyFound(last')
    /\ last'.next = 0

(* C17: responses do not confirm whether a key exists.  For two gated      *)
(* requests that differ only in whether the registry holds a record for    *)
(* the offered keyId (one unknown key, one known key that then fails a     *)
(* later check such as inactive or bad signature), the client-visible      *)
(* status, title, message and details are the same.  Stated on SpecKeys.   *)
KeyExistenceNotConfirmed ==
    [][UnknownThenKnown =>
         /\ ResponseOf(last').status = ResponseOf(last).status
         /\ ResponseOf(last').title = ResponseOf(last).title
         /\ ResponseOf(last').message = ResponseOf(last).message
         /\ ResponseOf(last').details = ResponseOf(last).details]_vars

-----------------------------------------------------------------------------
\* the request forwarded in this step is the one that was forwarded last
ForwardedAgain ==
    /\ Completes
    /\ last.req # 0
    /\ Gated(last)
    /\ last.kind = "FORWARD"
    /\ last'.req = last.req
    /\ last'.kind = "FORWARD"

(* C18: single use.  A signed request (the same signature-input and        *)
(* signature header values on the same path) is admitted at most once over *)
(* the whole lifetime of the process, also when its envelope has no        *)
(* expires parameter and when it is sent again after the nonce sweep has   *)
(* run; in particular no request is forwarded twice in a row.  Stated on   *)
(* SpecReplay.                                                             *)
AdmittedAtMostOnce ==
    [][~ForwardedAgain]_vars

-----------------------------------------------------------------------------
\* a logged value is safe: no control character, no line break, at most
\* LOG_LIMIT characters
LogSafe(value) ==
    /\ \A i \in DOMAIN value : value[i] \notin ControlChars
    /\ Len(value) <= LOG_LIMIT

(* C19: log safety.  Every request-sourced value written to the log on any *)
(* path through the gate and verifySignature (URL, header values, keyId,   *)
(* algorithm, nonce, tag, header names) has passed through                 *)
(* sanitizeLogOutput, so no log line contains a request-sourced string     *)
(* with control characters or longer than 200 characters.  Stated on       *)
(* SpecLog.                                                                *)
LogIsSafe ==
    last.req # 0 => \A e \in LogOf(last) : LogSafe(e.value)

-----------------------------------------------------------------------------
HasHeader(headers, name, value) == [name |-> name, value |-> value] \in headers

(* C20: every response produced by the gateway itself (the 403, 400 and    *)
(* 500 error pages, /test-proxy) and every proxied response has had        *)
(* Content-Security-Policy, X-Content-Type-Options: nosniff,               *)
(* X-Frame-Options: DENY and Referrer-Policy:                              *)
(* strict-origin-when-cross-origin set on it before any route handler ran. *)
(* Stated on SpecGate.                                                     *)
SecurityHeadersSet ==
    last.req # 0 =>
        /\ \E h \in last.headers : h.name = "Content-Security-Policy"
        /\ HasHeader(last.headers, "X-Content-Type-Options", "nosniff")
        /\ HasHeader(last.headers, "X-Frame-Options", "DENY")
        /\ HasHeader(last.headers, "Referrer-Policy",
                     "strict-origin-when-cross-origin")

\* GET /test-proxy was answered by the gateway with the headers set
TestProxyCarriesHeaders ==
    /\ last.req # 0
    /\ last.then.route = "test-proxy"
    /\ HasHeader(last.headers, "X-Frame-Options", "DENY")

-----------------------------------------------------------------------------
\* the request completing in this step was passed on by the gate or by
\* verifySignature
Admitted(ev) == ev.req # 0 /\ ev.next = 1

-----------------------------------------------------------------------------
(* C22: every gated request eventually terminates with exactly one outcome *)
(* (an error response or a forward), even when the registry never answers  *)
(* the key fetch: a request suspended in getKeyById is eventually resumed  *)
(* and answered.  Stated on SpecLive.                                      *)
EveryRequestTerminates ==
    (inflight # EmptyBag) ~> (inflight = EmptyBag)

-----------------------------------------------------------------------------
\* the keyId of the envelope is absent, not a string, empty, longer than
\* 100 characters, or holds a character outside [A-Za-z0-9._-]
MalformedKeyId(x) ==
    \/ x.t # "string"
    \/ x.v = <<>>
    \/ Len(x.v) > 100
    \/ \E i \in DOMAIN x.v :
         x.v[i] \notin Range(UpperChars) \cup Range(LowerChars)
                         \cup Range(DigitChars) \cup {".", "_", "-"}

(* C23: keyId validation precedes every backend access.  A gated request   *)
(* whose keyId is absent, not a string, empty, longer than 100 characters  *)
(* or contains a character outside [A-Za-z0-9._-] is rejected with 403     *)
(* before any registry fetch is issued, and leaves the key cache and the   *)
(* nonce table unchanged.  Stated on SpecKeyId.                            *)
KeyIdValidatedBeforeFetch ==
    [][\A id \in KeyIdScenario :
         (/\ StartsWith(ToLowerCase(RequestList[id].url), S_productPrefix)
          /\ hasSignatureHeaders(RequestList[id])
          /\ SignatureDataOf[id].ok
          /\ MalformedKeyId(SignatureDataOf[id].keyId)
          /\ Arrive(id, MaxInFlight)) =>
            /\ last'.req = id
            /\ StatusOf(last'.kind) = 403
            /\ last'.next = 0
            /\ last'.status = -1
            /\ inflight' = inflight
            /\ keyCache' = keyCache
            /\ nonceCache' = nonceCache]_vars

\* a keyId of 101 letters was rejected without a fetch
LongKeyIdRejected ==
    /\ last.req # 0
    /\ last.kind = "INVALID_KEY_ID"
    /\ EvData(last).keyId.t = "string"
    /\ Len(EvData(last).keyId.v) > 100
    /\ last.status = -1

-----------------------------------------------------------------------------
\* the error of the earliest failing step, for a request completing against
\* the nonce table `nonces`; FORWARD when no step fails
FirstFailure(ev, nonces) ==
    IF ~EvData(ev).ok THEN "INVALID_ENVELOPE"
    ELSE IF MalformedKeyId(EvData(ev).keyId) THEN "INVALID_KEY_ID"
    ELSE IF ~KeyFound(ev) THEN "KEY_NOT_FOUND"
    ELSE IF ~KeyActive(ev) THEN "KEY_INACTIVE"
    ELSE IF SpecCreatedInFuture(ev) THEN "TIMESTAMP_FUTURE"
    ELSE IF SpecExpired(ev) THEN "SIGNATURE_EXPIRED"
    ELSE IF EvData(ev).nonce \in {Undef, Str(<<>>)} THEN "MISSING_NONCE"
    ELSE IF NonceHas(nonces, EvData(ev).nonce) THEN "REPLAY"
    ELSE IF ~SignatureWellFormed(ev) THEN "INVALID_SIGNATURE_FORMAT"
    ELSE IF ~AlgSupported(ev) THEN "UNSUPPORTED_ALGORITHM"
    ELSE IF ~Genuine(ev) THEN "SIGNATURE_BAD"
    ELSE "FORWARD"

(* C24: checks run in a fixed order and the first failing one decides the  *)
(* response: parse signature-input, validate keyId, fetch key, is_active,  *)
(* created, expires, nonce present, nonce fresh, signature-header form,    *)
(* algorithm dispatch, cryptographic verification.  A gated request that   *)
(* carries both headers receives the error of the earliest failing step,   *)
(* and is forwarded when none fails.  Stated on SpecTime.                  *)
FirstFailingCheckDecides ==
    [][(/\ Completes
        /\ Gated(last')
        /\ hasSignatureHeaders(EvRequest(last'))) =>
          last'.kind = FirstFailure(last', nonceCache)]_vars

-----------------------------------------------------------------------------
\* the request passed parsing, keyId validation, the key lookup, the active
\* check and the temporal check, and carries a nonce
PassedToGuard(ev) ==
    /\ Gated(ev)
    /\ hasSignatureHeaders(EvRequest(ev))
    /\ EvData(ev).ok
    /\ ~MalformedKeyId(EvData(ev).keyId)
    /\ KeyActive(ev)
    /\ ~SpecCreatedInFuture(ev)
    /\ ~SpecExpired(ev)
    /\ EvData(ev).nonce \notin {Undef, Str(<<>>)}

(* C25: the nonce is recorded before cryptographic verification and        *)
(* independent of its outcome.  For every gated request that passes        *)
(* parsing, keyId validation, key lookup, the active check and the         *)
(* temporal check and carries a nonce not in the table, the nonce is in    *)
(* the table after the request, also when the request is then rejected for *)
(* a bad signature; and a request that gets as far with a nonce that is in *)
(* the table, correctly signed or not, is Replay.                          *)
NonceRecordedBeforeVerification ==
    [][(Completes /\ PassedToGuard(last')) =>
         IF NonceHas(nonceCache, EvData(last').nonce)
         THEN /\ last'.kind = "REPLAY"
              /\ last'.next = 0
         ELSE /\ NonceHas(nonceCache', EvData(last').nonce)
              /\ NonceGet(nonceCache', EvData(last').nonce) = last'.t]_vars

\* a request with a signature of another key pair was rejected and its
\* nonce is in the table
BadSignatureSpentNonce ==
    /\ last.req # 0
    /\ last.kind = "SIGNATURE_BAD"
    /\ last.fresh
    /\ NonceHas(nonceCache, EvData(last).nonce)

-----------------------------------------------------------------------------
\* the rejections at the steps before the replay guard, and Replay
RejectedByGuardOrBefore ==
    {"INVALID_ENVELOPE", "INVALID_KEY_ID", "KEY_NOT_FOUND", "KEY_INACTIVE",
     "TIMESTAMP_FUTURE", "SIGNATURE_EXPIRED", "MISSING_NONCE", "REPLAY"}

(* C26: a gated request rejected at any step before the replay guard       *)
(* (signature-input parse failure, invalid keyId, key not found, inactive  *)
(* key, created in the future, expired, missing nonce) or rejected as      *)
(* Replay leaves the nonce table unchanged: no entry added, removed, or    *)
(* re-timestamped.  Stated on SpecReject.                                  *)
EarlyRejectionKeepsNonces ==
    [][(/\ Completes
        /\ Gated(last')
        /\ last'.kind \in RejectedByGuardOrBefore) =>
          /\ nonceCache' = nonceCache
          /\ last'.next = 0]_vars

\* an expired request with a nonce the table does not hold was rejected, the
\* table holding another request's entry
ExpiredBesideRecordedNonce ==
    /\ last.req # 0
    /\ last.kind = "SIGNATURE_EXPIRED"
    /\ nonceCache # {}

-----------------------------------------------------------------------------
\* the step is one of the sweep: nothing but the nonce table changes
SweepStep == UNCHANGED <<now, keyCache, inflight, last, lastFresh>>

(* C27: nonce entries are append-only between sweeps.  Only the periodic   *)
(* sweep removes an entry, it removes only entries with                    *)
(* now - first_seen_at > NONCE_TTL, and no request (including an aborted   *)
(* or failed one) removes an entry or overwrites the first_seen_at of an   *)
(* existing entry.  Stated on SpecReplay.                                  *)
NoncesAppendOnly ==
    [][\A e \in nonceCache :
         /\ NonceHas(nonceCache', e.nonce) =>
              NonceGet(nonceCache', e.nonce) = e.timestamp
         /\ ~NonceHas(nonceCache', e.nonce) =>
              /\ SweepStep
              /\ now - e.timestamp > NONCE_TTL]_vars

\* a nonce that was recorded has been swept, more than NONCE_TTL after it
\* was recorded
SweptAfterTTL ==
    \E f \in lastFresh :
        /\ ~NonceHas(nonceCache, f.nonce)
        /\ now - f.timestamp > NONCE_TTL

-----------------------------------------------------------------------------
\* an entry recorded at instant t is in the table
HeldSince(t) == \E e \in nonceCache : e.timestamp = t

(* C28: every recorded nonce is eventually evicted.  Under a fair sweep    *)
(* timer and advancing time, each entry is removed by the first sweep that *)
(* runs when its age exceeds NONCE_TTL, so the table holds no entry older  *)
(* than NONCE_TTL plus one sweep period, and an entry recorded at the      *)
(* start or a millisecond later is eventually gone.  Stated on SpecSweep.  *)
NonceEventuallyEvicted ==
    /\ [](\A e \in nonceCache : now - e.timestamp <= NONCE_TTL + SWEEP_PERIOD)
    /\ [][\A e \in nonceCache :
            (TimerSweep /\ NonceExpired(e, now)) => e \notin nonceCache']_vars
    /\ \A t \in {StartMs, StartMs + 1} : HeldSince(t) ~> ~HeldSince(t)

\* an entry was kept by the sweep that ran when its age was NONCE_TTL and
\* is held a sweep period later, its age at the bound
HeldAtTheBound ==
    \E e \in nonceCache : now - e.timestamp = NONCE_TTL + SWEEP_PERIOD

-----------------------------------------------------------------------------
\* the table holds the nonce in an entry older than NONCE_TTL at instant t
HeldStale(nonces, nonce, t) ==
    \E e \in nonces : e.nonce = nonce /\ t - e.timestamp > NONCE_TTL

(* C29: a nonce that is still in the table is treated as used whatever its *)
(* age.  A gated request carrying a nonce whose entry is older than        *)
(* NONCE_TTL but not yet swept is rejected as Replay, and the entry's      *)
(* timestamp is not refreshed by that request.  Stated on SpecReplay.      *)
StaleNonceIsUsed ==
    [][(/\ Completes
        /\ PassedToGuard(last')
        /\ HeldStale(nonceCache, EvData(last').nonce, last'.t)) =>
          /\ last'.kind = "REPLAY"
          /\ StatusOf(last'.kind) = 403
          /\ last'.next = 0
          /\ nonceCache' = nonceCache]_vars

\* a request was answered Replay on an entry older than NONCE_TTL
ReplayOnStaleEntry ==
    /\ last.req # 0
    /\ last.kind = "REPLAY"
    /\ HeldStale(nonceCache, EvData(last).nonce, last.t)

-----------------------------------------------------------------------------
\* the algorithm of the key record is the one the envelope names
AlgorithmsMatch(ev) ==
    /\ ev.key.algorithm.t = "string"
    /\ EvData(ev).algorithm.t = "string"
    /\ ToLowerCase(ev.key.algorithm.v) = ToLowerCase(EvData(ev).algorithm.v)

(* C30: a gated request is admitted only if the algorithm of the           *)
(* registry's key record equals the algorithm named in the envelope: a     *)
(* request whose envelope alg differs from keyInfo.algorithm is rejected.  *)
(* Stated on SpecAlgorithm.                                                *)
AdmittedOnlyOnMatchingAlgorithm ==
    (Gated(last) /\ last.next = 1) => AlgorithmsMatch(last)

-----------------------------------------------------------------------------
\* created and expires are both written and created is not after expires
EnvelopeOrdered(ev) ==
    (IsInt(EvData(ev).created) /\ IsInt(EvData(ev).expires))
        => EvData(ev).created.v[1] <= EvData(ev).expires.v[1]

(* C31: every admitted envelope satisfies the envelope invariant: if both  *)
(* created and expires are present then created <= expires; a request with *)
(* created > expires is never forwarded.  Stated on SpecOrder.             *)
AdmittedEnvelopeOrdered ==
    (Gated(last) /\ last.next = 1) => EnvelopeOrdered(last)

-----------------------------------------------------------------------------
\* the lines of a text: the pieces between its line breaks
NthOf(S, k) == CHOOSE x \in S : Cardinality({y \in S : y < x}) = k - 1

LinesOf(cs) ==
    LET breaks == {i \in 1..Len(cs) : cs[i] = "\n"}
        n == Cardinality(breaks)
    IN  [k \in 1..(n + 1) |->
           SubSeq(cs,
                  IF k = 1 THEN 1 ELSE NthOf(breaks, k - 1) + 1,
                  IF k = n + 1 THEN Len(cs) ELSE NthOf(breaks, k) - 1)]

\* the component a line of the base string names: the text between its
\* first two quotes
NameOfLine(line) ==
    LET q == {i \in 2..Len(line) : line[i] = "\""}
    IN  IF q = {} \/ Len(line) = 0 \/ line[1] # "\"" THEN <<>>
        ELSE SubSeq(line, 2, NthOf(q, 1) - 1)

\* names is params with some of its entries left out, the order kept
RECURSIVE IsSubsequence(_, _)
IsSubsequence(names, params) ==
    IF names = <<>> THEN TRUE
    ELSE IF params = <<>> THEN FALSE
    ELSE IF Head(names) = Head(params)
    THEN IsSubsequence(Tail(names), Tail(params))
    ELSE IsSubsequence(names, Tail(params))

\* the request got as far as buildRFC9421SignatureString
BuiltBase(ev) == ReachedGuard(ev) /\ ev.fresh

\* the base string verifySignature built for the request
BaseOf(ev) ==
    buildRFC9421SignatureString(EvData(ev).params, RequestData(EvRequest(ev)),
                                RenderSigInput(EvRequest(ev).sigInput))

BaseWellFormed(ev) ==
    LET header == RenderSigInput(EvRequest(ev).sigInput)
        base == BaseOf(ev)
        lines == LinesOf(base)
        n == Len(lines)
        names == [k \in 1..(n - 1) |-> NameOfLine(lines[k])]
    IN  /\ base # <<>>
        /\ base[Len(base)] # "\n"
        /\ \A k \in 1..n : lines[k] # <<>>
        /\ lines[n] = Quoted(S_sigparams) \o <<":", " ">>
                        \o SubSeq(header, Len(S_sig2) + 2, Len(header))
        /\ \A k \in 1..(n - 1) : NameOfLine(lines[k]) # S_sigparams
        /\ IsSubsequence(names, EvData(ev).params)

(* C32: the base string is one line per emitted covered component, in the  *)
(* order of the envelope's component list, then exactly one                *)
(* "@signature-params" line, last and always there, also when no component *)
(* yields a line; the lines are joined by single line breaks with none at  *)
(* the end, and the @signature-params value is the signature-input header  *)
(* without its leading sig2=.  Stated on SpecBase.                         *)
BaseStringShape ==
    BuiltBase(last) => BaseWellFormed(last)

\* a request covering only a header it does not carry had a base string of
\* the single @signature-params line
OnlySignatureParamsLine ==
    /\ BuiltBase(last)
    /\ EvData(last).params = <<S_xagent>>
    /\ Len(LinesOf(BaseOf(last))) = 1

-----------------------------------------------------------------------------
\* the components the switch of buildRFC9421SignatureString names
SwitchComponents == {S_authority, S_path, S_contentType, S_host}

\* of the component, the base string has the line with the value of the
\* request header of that name when the request carries it, and no line
\* when it does not
HeaderComponentLine(ev, param) ==
    LET lines == LinesOf(BaseOf(ev))
        value == HeaderValue(EvRequest(ev).otherHeaders, param)
    IN  IF value = Undef
        THEN \A k \in DOMAIN lines : NameOfLine(lines[k]) # param
        ELSE \E k \in DOMAIN lines : lines[k] = ComponentLine(param, value.v)

(* C33: for a covered component that is not @authority, @path, host or     *)
(* content-type, the base string has the line "<component>": <value> with  *)
(* the value of the request header of that name, looked up without regard  *)
(* to case, whenever the request carries the header, and omits the line    *)
(* only when the header is absent.  Stated on SpecBase.                    *)
HeaderComponentsFromHeaders ==
    BuiltBase(last) =>
        \A i \in DOMAIN EvData(last).params :
            EvData(last).params[i] \notin SwitchComponents
                => HeaderComponentLine(last, EvData(last).params[i])

-----------------------------------------------------------------------------
\* the step sends one request to the registry; the step takes one answer
Issued == BagCardinality(inflight') = BagCardinality(inflight) + 1
Answered == BagCardinality(inflight') = BagCardinality(inflight) - 1

\* either next() was called or an error response was sent, and after an
\* error response nothing went to an upstream
OneOutcome(ev) ==
    /\ (ev.next = 1) # (StatusOf(ev.kind) >= 400)
    /\ StatusOf(ev.kind) >= 400 => ev.then = NotDispatched

\* the cache holds an entry of the key younger than CACHE_TTL
FreshInCache(keyId) ==
    /\ CacheHas(keyCache, CacheKey(keyId))
    /\ CacheFresh(CacheGet(keyCache, CacheKey(keyId)), now)

(* C34: errors are terminal and nothing is retried.  A step of a gated     *)
(* request either ends it with exactly one outcome, an error response or a *)
(* call of next() and never both, or sends its one registry fetch, and     *)
(* then the answer to that fetch ends it with exactly one outcome; a       *)
(* request is never ended twice, nothing goes to an upstream after an      *)
(* error response, and no fetch is sent for a key the cache holds an entry *)
(* of within CACHE_TTL.  Stated on SpecCache.                              *)
OneOutcomeOneFetch ==
    [][/\ Issued \/ Answered \/ inflight' = inflight
       /\ Issued =>
            /\ last' = last
            /\ nonceCache' = nonceCache
            /\ \A e \in BagToSet(inflight') :
                 CopiesIn(e, inflight') > CopiesIn(e, inflight)
                    => ~FreshInCache(KeyIdOf(e.req))
       /\ Answered =>
            /\ \E e \in BagToSet(inflight) :
                 /\ inflight' = inflight (-) SetToBag({e})
                 /\ last'.req = e.req
            /\ ~last'.hit
            /\ OneOutcome(last')
       /\ last' # last =>
            /\ OneOutcome(last')
            /\ (Gated(last') /\ inflight' = inflight)
                  => last'.hit \/ BeforeLookupOf[last'.req] # ""]_vars

\* a request was rejected as a replay on a key taken from the cache while
\* nothing was in flight
ReplayAnsweredFromCache ==
    /\ Gated(last)
    /\ last.hit
    /\ last.kind = "REPLAY"
    /\ inflight = EmptyBag

-----------------------------------------------------------------------------
\* request a was admitted, and request b, which names the same nonce under
\* another keyId, reached the replay guard no more than NONCE_TTL later
SameNonceOtherKey(a, b) ==
    /\ Gated(a)
    /\ a.kind = "FORWARD"
    /\ ReachedGuard(b)
    /\ EvData(b).nonce = EvData(a).nonce
    /\ EvData(b).keyId # EvData(a).keyId
    /\ b.t - a.t <= NONCE_TTL

(* C35: the replay guard keys on the nonce value alone.  When a request    *)
(* under keyId A was admitted and so recorded its nonce, the next request  *)
(* to complete, if it carries the same nonce under another active keyId B  *)
(* within the retention window, is rejected as a replay and leaves the     *)
(* nonce table as it was, also when B's signature is valid.  Stated on     *)
(* SpecReplay.                                                             *)
NonceSharedAcrossKeys ==
    [][(last' # last /\ SameNonceOtherKey(last, last'))
          => /\ last'.kind = "REPLAY"
             /\ StatusOf(last'.kind) = 403
             /\ nonceCache' = nonceCache]_vars

\* the genuine request of k2 was rejected as a replay on its first lookup
\* of the key, beside the cached key of k1, whose request spent the nonce
OtherKeyRejectedAsReplay ==
    /\ last.req = IdOf(Signed(S_product1, S_k2, S_n1))
    /\ last.kind = "REPLAY"
    /\ KeyActive(last)
    /\ Genuine(last)
    /\ ~last.hit
    /\ last.age = -1
    /\ CacheHas(keyCache, CacheKey(S_k1))

-----------------------------------------------------------------------------
\* the registry state a key record is of: the record of the active key, then
\* the record of the deactivated key
RegistryStateOf(key) == IF key.is_active = Str(S_true) THEN 0 ELSE 1

(* C36: key cache monotonicity under concurrent fetches.  When several     *)
(* requests for one keyId have fetches in flight and the registry's record *)
(* changes between them, no step replaces the cached record of a key by a  *)
(* record of an earlier registry state, and no request is answered on a    *)
(* cache hit with an earlier record than one the cache held before: an     *)
(* answer that arrives late does not overwrite a newer record.  Stated on  *)
(* SpecRotate.                                                             *)
CacheNeverGoesBack ==
    [][\A old \in keyCache : \A new \in keyCache' :
          old.ck = new.ck
             => RegistryStateOf(new.key) >= RegistryStateOf(old.key)]_vars

-----------------------------------------------------------------------------
\* the step ends an operation of the CartProvider: a call settles and the
\* operation awaits nothing more
EndsOperation ==
    BagCardinality(cartOps'.pending) < BagCardinality(cartOps.pending)

(* C37: the loading flag of the cart.  After any operation of the          *)
(* CartProvider (loadCart, addToCart, updateCartItem, removeFromCart,      *)
(* clearCart) has completed, with success or with failure, state.loading   *)
(* is false; no operation leaves it at true.  Stated on SpecCart.          *)
LoadingFalseAfterOperation ==
    [][EndsOperation => ~cartState'.loading]_vars

-----------------------------------------------------------------------------
\* every loadProducts call has completed, the page shows its product list,
\* and the call issued last was issued with currentFilters
AllLoadsCompleted ==
    /\ pageCalls.started
    /\ pageCalls.loads = {}
    /\ pageCalls.timers = EmptyBag
    /\ Rendered(page)
    /\ pageCalls.latest = page.currentFilters

(* C38: consistency of the products page.  When several loadProducts calls *)
(* are in flight and their responses arrive in any order, once all have    *)
(* completed the products and the total shown are those of the filter set  *)
(* issued last (currentFilters), not those of an earlier request whose     *)
(* response arrived last.  Stated on SpecPage.                             *)
ShownIsOfCurrentFilters ==
    AllLoadsCompleted =>
        /\ page.products = SearchResponse(page.currentFilters).products
        /\ page.total = SearchResponse(page.currentFilters).total

====
